---- MODULE Spec2Model ----
(***************************************************************************)
(* A model of the event distribution layer of nefit-homekit: the events   *)
(* package (StateUpdateEvent.Equals, the Bus wrapper with its             *)
(* deduplication of state updates) on top of tailscale.com/util/eventbus. *)
(*                                                                         *)
(* Numbers.  A float64 reading is modelled as an integer count of units   *)
(* of 0.005, so that the tolerance 0.01 of Equals is Epsilon = 2 units    *)
(* and differences below, at and above the tolerance all occur.  The      *)
(* rounding of float64 subtraction, NaN and the infinities are outside    *)
(* the model.                                                              *)
(*                                                                         *)
(* The eventbus library.  The wrapper's publish functions call            *)
(* eventbus.Publish[T](client), Publisher.Publish and Publisher.Close of  *)
(* the dependency pinned in go.mod.  Its behaviour is modelled from the   *)
(* library as pinned there:                                               *)
(*   - eventbus.Publish[T] and eventbus.Subscribe[T] panic on a client    *)
(*     that was closed;                                                    *)
(*   - Publisher.Publish hands the event to the bus's router goroutine    *)
(*     over an unbuffered channel; it returns once the router has taken   *)
(*     the event into its bounded queue, or at once when the publisher    *)
(*     was stopped (its client closed);                                    *)
(*   - the router takes the events of its queue in order, looks up the    *)
(*     clients subscribed to the event's type at that moment, and hands   *)
(*     the event to the bounded queue of each of them in turn, waiting    *)
(*     while that queue is full;                                           *)
(*   - each client's queue is emptied in order by rendezvous with the     *)
(*     reader of Subscriber.Events(); an event whose type has no          *)
(*     subscriber on the client any more is discarded.                     *)
(***************************************************************************)
EXTENDS Integers, Sequences, FiniteSets, TLC

VARIABLES
    \* ---- events.Bus (the wrapper)
    clients,        \* the keys of Bus.clients
    mu,             \* holder of Bus.mu (write lock), or "none"
    lastState,      \* Bus.lastState: <<>> is nil, <<e>> points to e
    stateMu,        \* holder of Bus.stateMu, or "none"
    \* ---- tailscale eventbus
    clientClosed,   \* the eventbus clients on which Close was called
    closeCount,     \* per client: how many times Client.Close was called
    busQueue,       \* the router's queue of published events
    routing,        \* the clients the router still has to hand the head event to
    routingActive,  \* the router has looked up the head event's subscribers
    topics,         \* per event type: the subscribed clients, in subscription order
    subGen,         \* per client and type: the current subscription (0: none)
    cq,             \* per client: its queue of events to dispatch
    \* ---- goroutines calling the wrapper
    pc,             \* per goroutine: its position
    op,             \* per goroutine: the call it runs (kind, client, event)
    crashed,        \* a panic has ended the process
    \* ---- bookkeeping of what happened
    calls,          \* the publish calls made, in order: type, event, client handle
    nSubs,          \* the number of subscriptions created
    nClose,         \* the number of Bus.Close calls made
    closeReturned,  \* a Bus.Close call has returned
    handed,         \* the events the router accepted, in order
    received,       \* per subscription: the events its reader received, in order
    subInfo,        \* per subscription: client, type, what was published/queued at creation
    \* ---- StateUpdateEvent.Equals as a function under test
    evA, evB, eqCalled, eqResult,
    \* ---- nefit.Client: the connection
    cfg,            \* Client.cfg: the three XMPP timings, in seconds
    backoff,        \* the local variable backoff of connectWithRetry
    reconnectNum,   \* Client.reconnectNum
    connPc,         \* the statement the connectWithRetry goroutine is at
    ctxDone,        \* Client.ctx was cancelled
    statusLog,      \* the ConnectionStatusEvents the client published, in order
    waits,          \* the backoff waits begun, in order
    attemptLog,     \* the result of each nefitClient.Connect call: "ok" or the error
    link,           \* the device link: "down", "up" or "lost"
    polling,        \* the pollStatus goroutine was started
    closePc,        \* the statement a Client.Close call is at
    closeAt,        \* what connectWithRetry was doing when Client.Close was invoked
    \* ---- nefit.Client: the commands
    cmdPc,          \* the statement the handleCommands goroutine is at
    cmdCur,         \* the command being handled
    cmdSeen,        \* the commands taken from the subscription, in order
    handledLog,     \* the commands passed to handleCommand, in order
    puts,           \* the nefitClient.Put calls made, in order
    fetches,        \* the fetchAndPublishStatus calls made, in order
    startedAt,      \* <<>>, or <<n>>: Client.Start returned when n events were published
    \* ---- nefit.Client: the keepalive poll and the push notifications
    pollPc,         \* the statement the pollStatus goroutine is at
    pollLog,        \* the status fetches of pollStatus, in order
    pushLog,        \* the notifications handleNefitEvent was called with, in order
    \* ---- main
    mainPc,         \* the statement run is at
    loaded,         \* <<>>, or the one result of config.Load: the values and the verdict
    shutdownLog,    \* what the deferred closes of run did, in order
    \* ---- web.Server
    webMu,          \* Server.mu: the SSE requests holding its read lock
    currentState,   \* Server.currentState: <<>> is nil, <<e>> points to e
    sseClients,     \* the keys of Server.sseClients
    clientChan,     \* per SSE request: the buffer of its channel and whether it is closed
    ssePc,          \* per SSE request: the statement handleSSE is at
    webPanics,      \* the run-time panics of the web server's goroutines, in order
    updPc,          \* the statement the handleStateUpdates goroutine is at
    updEvent,       \* the event updateState was called with (0: none)
    nUpdates,       \* the number of state updates the subscription delivered
    webClosePc,     \* the statement a Server.Close call is at
    webCtx,         \* Server.ctx was cancelled
    webStatus       \* the ConnectionStatusEvents the web server published, in order

busVars == <<clients, mu, lastState, stateMu, clientClosed, closeCount, busQueue,
             routing, routingActive, topics, subGen, cq, pc, op,
             crashed, calls, nSubs, nClose, closeReturned, handed, received,
             subInfo>>
eqVars == <<evA, evB, eqCalled, eqResult>>
connVars == <<cfg, backoff, reconnectNum, connPc, ctxDone, statusLog, waits,
              attemptLog, link, polling, closePc, closeAt>>
cmdVars == <<cmdPc, cmdCur, cmdSeen, handledLog, puts, fetches, startedAt>>
webVars == <<webMu, currentState, sseClients, clientChan, ssePc, webPanics, updPc, updEvent, nUpdates, webClosePc, webCtx, webStatus>>
otherVars == <<pollPc, pollLog, pushLog, mainPc, loaded, shutdownLog, webVars>>
nefitVars == <<connVars, cmdVars, otherVars>>
restVars == <<eqVars, nefitVars>>
vars == <<busVars, eqVars, nefitVars>>

-----------------------------------------------------------------------------
(* Bounds of the model. *)

\* Capacity of the router's queue and of each client's queue.
QueueCap == 1
\* Publish calls made in one behaviour.
MaxPublish == 3
\* Subscriptions created in one behaviour.
MaxSubs == 2
\* Bus.Close calls made in one behaviour.
MaxClose == 2
\* Largest reading, in units, drawn for the inputs of Equals.
MaxUnits == 2
\* nefitClient.Connect calls made in one behaviour.
MaxAttempts == 4
\* Direct calls of handleCommand made in one behaviour.
MaxDirect == 2
\* Push notifications received in one behaviour.
MaxPush == 2
\* Status fetches of the keepalive loop in one behaviour.
MaxPolls == 1
\* Bits of a time.Duration (an int64 of nanoseconds in Go), counted here in
\* seconds: the largest duration is 2^(DurationBits - 1) - 1 seconds.
DurationBits == 12

-----------------------------------------------------------------------------
(* events: the event types *)

\* const epsilon = 0.01, in units of 0.005
Epsilon == 2

ClientNefit == "nefit"
ClientHomeKit == "homekit"
ClientWeb == "web"
ClientMetrics == "metrics"
ClientNames == {ClientNefit, ClientHomeKit, ClientWeb, ClientMetrics}

TState == "StateUpdateEvent"
TCommand == "CommandEvent"
TStatus == "ConnectionStatusEvent"
EventTypes == {TState, TCommand, TStatus}

StateUpdateEvent(ts, src, cur, tgt, heat, mode, pres, hw, hwt) ==
    [Timestamp |-> ts, Source |-> src, CurrentTemperature |-> cur,
     TargetTemperature |-> tgt, HeatingActive |-> heat, Mode |-> mode,
     Pressure |-> pres, HotWaterActive |-> hw, HotWaterTemperature |-> hwt]

\* The zero value of the struct.
ZeroStateUpdateEvent == StateUpdateEvent(0, "", 0, 0, FALSE, "", 0, FALSE, 0)

\* abs, had it forgotten the negative branch.
absNoNegate(x) == x

\* func abs(x float64) float64
abs(x) == IF x < 0 THEN -x ELSE x

\* Equals, had it compared the Source as well.
EqualsComparingSource(e, other) ==
    /\ abs(e.CurrentTemperature - other.CurrentTemperature) < Epsilon
    /\ abs(e.TargetTemperature - other.TargetTemperature) < Epsilon
    /\ e.HeatingActive = other.HeatingActive
    /\ e.Mode = other.Mode
    /\ abs(e.Pressure - other.Pressure) < Epsilon
    /\ e.HotWaterActive = other.HotWaterActive
    /\ abs(e.HotWaterTemperature - other.HotWaterTemperature) < Epsilon
    /\ e.Source = other.Source

\* Equals, had it taken a difference of exactly the tolerance for equal.
EqualsWithinOrAtEpsilon(e, other) ==
    /\ abs(e.CurrentTemperature - other.CurrentTemperature) <= Epsilon
    /\ abs(e.TargetTemperature - other.TargetTemperature) <= Epsilon
    /\ e.HeatingActive = other.HeatingActive
    /\ e.Mode = other.Mode
    /\ abs(e.Pressure - other.Pressure) <= Epsilon
    /\ e.HotWaterActive = other.HotWaterActive
    /\ abs(e.HotWaterTemperature - other.HotWaterTemperature) <= Epsilon

\* func (e StateUpdateEvent) Equals(other StateUpdateEvent) bool
Equals(e, other) ==
    /\ abs(e.CurrentTemperature - other.CurrentTemperature) < Epsilon
    /\ abs(e.TargetTemperature - other.TargetTemperature) < Epsilon
    /\ e.HeatingActive = other.HeatingActive
    /\ e.Mode = other.Mode
    /\ abs(e.Pressure - other.Pressure) < Epsilon
    /\ e.HotWaterActive = other.HotWaterActive
    /\ abs(e.HotWaterTemperature - other.HotWaterTemperature) < Epsilon

\* A nil pointer is the empty sequence, a set pointer a sequence of one value.
CommandEvent(ts, src, ctype, tgt, mode, hw) ==
    [Timestamp |-> ts, Source |-> src, CommandType |-> ctype,
     TargetTemperature |-> tgt, Mode |-> mode, HotWaterEnabled |-> hw]

CommandTypeSetTemperature == "set_temperature"
CommandTypeSetMode == "set_mode"
CommandTypeSetHotWater == "set_hot_water"

ConnectionStatusEvent(ts, component, status, err, reconnects) ==
    [Timestamp |-> ts, Component |-> component, Status |-> status,
     Error |-> err, Reconnects |-> reconnects]

ConnectionStatusDisconnected == "disconnected"
ConnectionStatusConnecting == "connecting"
ConnectionStatusConnected == "connected"
ConnectionStatusReconnecting == "reconnecting"
ConnectionStatusFailed == "failed"

-----------------------------------------------------------------------------
(* The inputs the model draws. *)

\* The goroutines that call the wrapper.
Goroutines == {"g1", "g2"}

\* 21.5, 22.0, 1.5 and 55.0 of the package's tests, in units of 0.005.
BaseState(src, cur) ==
    StateUpdateEvent(0, src, cur, 4400, TRUE, "heat", 300, TRUE, 11000)

\* The zero value with its current temperature moved by d units.
NearZero(src, d) ==
    [ZeroStateUpdateEvent EXCEPT !.Source = src, !.CurrentTemperature = d]

\* The zero value, the zero value moved by half the tolerance (and from
\* another source), and the zero value moved by the whole tolerance.
StateInputs == { ZeroStateUpdateEvent, NearZero("web", 1), NearZero("nefit", Epsilon) }

\* The client handle each kind of event is published through.
StatePubClients == {ClientNefit}
CommandPubClients == {ClientHomeKit}
StatusPubClients == {ClientNefit}

\* The subscriptions consumers make: client and event type.
StateSubTargets == { <<ClientHomeKit, TState>>, <<ClientWeb, TState>> }
PlainSubTargets == { <<ClientNefit, TCommand>>, <<ClientHomeKit, TStatus>> }

NoOp == [kind |-> "none", client |-> "", ev |-> ZeroStateUpdateEvent, afterClose |-> FALSE]
NoSub == [client |-> "", type |-> "", handedBefore |-> 0, queuedAt |-> {}]

Item(t, e, c) == [type |-> t, ev |-> e, from |-> c]

RECURSIVE SeqRemove(_, _)
SeqRemove(s, x) ==
    IF s = <<>> THEN <<>>
    ELSE IF Head(s) = x THEN SeqRemove(Tail(s), x)
    ELSE <<Head(s)>> \o SeqRemove(Tail(s), x)

Range(s) == { s[i] : i \in 1..Len(s) }
Stamps(s) == { s[i].ev.Timestamp : i \in 1..Len(s) }
OfType(s, t) == SelectSeq(s, LAMBDA it : it.type = t)

-----------------------------------------------------------------------------
(* events.New: the bus after construction, with its four named clients. *)

BusInit ==
    /\ clients = ClientNames
    /\ mu = "none"
    /\ lastState = <<>>
    /\ stateMu = "none"
    /\ clientClosed = {}
    /\ closeCount = [c \in ClientNames |-> 0]
    /\ busQueue = <<>>
    /\ routing = <<>>
    /\ routingActive = FALSE
    /\ topics = [t \in EventTypes |-> <<>>]
    /\ subGen = [c \in ClientNames |-> [t \in EventTypes |-> 0]]
    /\ cq = [c \in ClientNames |-> <<>>]
    /\ pc = [g \in Goroutines |-> "idle"]
    /\ op = [g \in Goroutines |-> NoOp]
    /\ crashed = FALSE
    /\ calls = <<>>
    /\ nSubs = 0
    /\ nClose = 0
    /\ closeReturned = FALSE
    /\ handed = <<>>
    /\ received = [n \in 1..MaxSubs |-> <<>>]
    /\ subInfo = [n \in 1..MaxSubs |-> NoSub]

EqIdle ==
    /\ evA = ZeroStateUpdateEvent
    /\ evB = ZeroStateUpdateEvent
    /\ eqCalled = FALSE
    /\ eqResult = FALSE

\* config.Config, of which the model keeps the two backoff settings, in seconds.
Config(keepalive, b0, bmax) ==
    [XMPPKeepaliveInterval |-> keepalive, XMPPReconnectBackoff |-> b0,
     XMPPMaxReconnectWait |-> bmax]

\* The defaults of the env tags: 30s, 5s and 5m.
DefaultConfig == Config(30, 5, 300)

NoCommand == [id |-> 0, via |-> "", cmd |-> CommandEvent(0, "", "", <<>>, <<>>, <<>>)]

\* nefit.New: a client that was not started.
ClientNew(c) ==
    /\ cfg = c
    /\ backoff = 0
    /\ reconnectNum = 0
    /\ connPc = "not_started"
    /\ ctxDone = FALSE
    /\ statusLog = <<>>
    /\ waits = <<>>
    /\ attemptLog = <<>>
    /\ link = "down"
    /\ polling = FALSE
    /\ closePc = "idle"
    /\ closeAt = <<>>
    /\ cmdPc = "not_started"
    /\ cmdCur = NoCommand
    /\ cmdSeen = <<>>
    /\ handledLog = <<>>
    /\ puts = <<>>
    /\ fetches = <<>>
    /\ startedAt = <<>>
    /\ pollPc = "not_started"
    /\ pollLog = <<>>
    /\ pushLog = <<>>

\* The SSE requests the web server gets; each makes its own channel.
SSERequests == {"sse1", "sse2"}

\* make(chan events.StateUpdateEvent, 10) in handleSSE, on a smaller scale.
SSEBufferSize == 2

\* The state updates the web server's subscription delivers at most.
MaxUpdates == 3

\* The nth state update the bus delivers to the web server.
UpdateEvent(n) ==
    StateUpdateEvent(n, "nefit", 2000 + n, 2100, TRUE, "heat", 0, FALSE, 0)

\* A channel of handleSSE: its buffered events, and whether it was closed.
NewChan == [buf |-> <<>>, closed |-> FALSE]

\* web.New: a server that was not started.
ServerNew ==
    /\ webMu = {}
    /\ currentState = <<>>
    /\ sseClients = {}
    /\ clientChan = [r \in SSERequests |-> NewChan]
    /\ ssePc = [r \in SSERequests |-> "idle"]
    /\ webPanics = <<>>
    /\ updPc = "not_started"
    /\ updEvent = 0
    /\ nUpdates = 0
    /\ webClosePc = "idle"
    /\ webCtx = FALSE
    /\ webStatus = <<>>

\* nefit.New as run calls it, run being past the start of its services.
NefitNew(c) ==
    /\ ClientNew(c)
    /\ ServerNew
    /\ mainPc = "running"
    /\ loaded = <<>>
    /\ shutdownLog = <<>>

NefitIdle == NefitNew(DefaultConfig)

Init == BusInit /\ EqIdle /\ NefitIdle

-----------------------------------------------------------------------------
(* tailscale eventbus, as the wrapper uses it. *)

wrapVars == <<clients, mu, lastState, stateMu>>
libVars == <<clientClosed, closeCount, routing, routingActive, topics, subGen, cq>>
callVars == <<pc, op>>
subVars == <<nSubs, received, subInfo>>
closeVars == <<nClose, closeReturned>>

\* eventbus.Publish[T](client) registers a publisher; it panics on a closed client.
PublishPanics(c) == c \in clientClosed

\* Publisher.Publish returns without sending when the publisher was stopped.
PublisherStopped(c) == c \in clientClosed

\* The router takes a published event only while its queue has room.
RouterAccepts == Len(busQueue) < QueueCap

\* Client.Close: the client's publishers are stopped, its subscribers are
\* closed and unsubscribed, its queue is gone.
ClientClose(c) ==
    /\ clientClosed' = clientClosed \cup {c}
    /\ closeCount' = [closeCount EXCEPT ![c] = @ + 1]
    /\ cq' = [cq EXCEPT ![c] = <<>>]
    /\ topics' = [t \in EventTypes |-> SeqRemove(topics[t], c)]
    /\ subGen' = [subGen EXCEPT ![c] = [t \in EventTypes |-> 0]]

QueuedFor(c, t) == Stamps(OfType(busQueue, t)) \cup Stamps(OfType(cq[c], t))

\* Subscribe, had it replayed the last published event of the type to the
\* new subscriber.
SubscribeReplaying(c, t) ==
    /\ ~crashed
    /\ nSubs < MaxSubs
    /\ subGen[c][t] = 0
    /\ c \notin clientClosed
    /\ nSubs' = nSubs + 1
    /\ subGen' = [subGen EXCEPT ![c][t] = nSubs + 1]
    /\ topics' = [topics EXCEPT ![t] = Append(@, c)]
    /\ subInfo' = [subInfo EXCEPT ![nSubs + 1] =
                      [client |-> c, type |-> t,
                       handedBefore |-> Len(handed),
                       queuedAt |-> QueuedFor(c, t)]]
    /\ cq' = [cq EXCEPT ![c] = IF OfType(handed, t) # <<>> /\ Len(@) < QueueCap
                                THEN Append(@, OfType(handed, t)[Len(OfType(handed, t))])
                                ELSE @]
    /\ UNCHANGED <<wrapVars, clientClosed, closeCount, busQueue, routing,
                   routingActive, callVars, crashed, calls, closeVars, handed,
                   received, restVars>>

\* eventbus.Subscribe[T](client), called by a consumer; it panics on a
\* closed client.
Subscribe(c, t) ==
    /\ ~crashed
    /\ nSubs < MaxSubs
    /\ subGen[c][t] = 0
    /\ IF c \in clientClosed
       THEN /\ crashed' = TRUE
            /\ UNCHANGED <<nSubs, subGen, topics, subInfo>>
       ELSE /\ nSubs' = nSubs + 1
            /\ subGen' = [subGen EXCEPT ![c][t] = nSubs + 1]
            /\ topics' = [topics EXCEPT ![t] = Append(@, c)]
            /\ subInfo' = [subInfo EXCEPT ![nSubs + 1] =
                              [client |-> c, type |-> t,
                               handedBefore |-> Len(handed),
                               queuedAt |-> QueuedFor(c, t)]]
            /\ UNCHANGED crashed
    /\ UNCHANGED <<wrapVars, clientClosed, closeCount, busQueue, routing,
                   routingActive, cq, callVars, calls, closeVars, handed, received,
                   restVars>>

\* Subscriber.Close, called by the consumer that subscribed.
SubscriberClose(c, t) ==
    /\ ~crashed
    /\ subGen[c][t] # 0
    /\ subGen' = [subGen EXCEPT ![c][t] = 0]
    /\ topics' = [topics EXCEPT ![t] = SeqRemove(@, c)]
    /\ UNCHANGED <<wrapVars, clientClosed, closeCount, busQueue, routing,
                   routingActive, cq, callVars, crashed, calls, closeVars, handed,
                   subVars, restVars>>

\* The router is done with the event at the head of its queue.
RouterDone ==
    /\ busQueue' = Tail(busQueue)
    /\ routing' = <<>>
    /\ routingActive' = FALSE

\* The router looks up the subscribers of the event at the head of its queue;
\* an event nobody subscribes to is dropped.
RouterRoute ==
    /\ ~crashed
    /\ busQueue # <<>>
    /\ ~routingActive
    /\ LET dests == topics[Head(busQueue).type] IN
       IF dests = <<>>
       THEN RouterDone
       ELSE /\ routing' = dests
            /\ routingActive' = TRUE
            /\ UNCHANGED busQueue
    /\ UNCHANGED <<wrapVars, clientClosed, closeCount, topics, subGen, cq,
                   callVars, crashed, calls, closeVars, handed, subVars, restVars>>

\* The router hands the head event to the next subscribed client's queue,
\* waiting while that queue is full and skipping a client that was closed.
RouterDeliver ==
    /\ ~crashed
    /\ routingActive
    /\ LET d == Head(routing) IN
       /\ IF d \in clientClosed
          THEN UNCHANGED cq
          ELSE /\ Len(cq[d]) < QueueCap
               /\ cq' = [cq EXCEPT ![d] = Append(@, Head(busQueue))]
       /\ IF Tail(routing) = <<>>
          THEN RouterDone
          ELSE /\ routing' = Tail(routing)
               /\ UNCHANGED <<busQueue, routingActive>>
    /\ UNCHANGED <<wrapVars, clientClosed, closeCount, topics, subGen,
                   callVars, crashed, calls, closeVars, handed, subVars, restVars>>

\* The reader of Subscriber.Events() takes the event at the head of its
\* client's queue.
Receive(c) ==
    /\ ~crashed
    /\ cq[c] # <<>>
    /\ subGen[c][Head(cq[c]).type] # 0
    /\ received' = [received EXCEPT ![subGen[c][Head(cq[c]).type]] =
                       Append(@, Head(cq[c]))]
    /\ cq' = [cq EXCEPT ![c] = Tail(@)]
    /\ UNCHANGED <<wrapVars, clientClosed, closeCount, busQueue, routing,
                   routingActive, topics, subGen, callVars, crashed, calls,
                   closeVars, handed, nSubs, subInfo, restVars>>

\* The client's dispatcher discards a queued event whose subscriber is gone.
Discard(c) ==
    /\ ~crashed
    /\ cq[c] # <<>>
    /\ subGen[c][Head(cq[c]).type] = 0
    /\ cq' = [cq EXCEPT ![c] = Tail(@)]
    /\ UNCHANGED <<wrapVars, clientClosed, closeCount, busQueue, routing,
                   routingActive, topics, subGen, callVars, crashed, calls,
                   closeVars, handed, subVars, restVars>>

-----------------------------------------------------------------------------
(* events.Bus: PublishStateUpdate, PublishCommand, PublishConnectionStatus, *)
(* Close.  A call is made by a goroutine g and runs in steps; pc[g] is the  *)
(* statement g is at.                                                        *)

Stamp(e, ts) == [e EXCEPT !.Timestamp = ts]

\* The number of publish calls made so far; a call's number is its Timestamp.
now == Len(calls)

\* A goroutine enters a publish function with a client handle it got from
\* Bus.Client at start-up, and an event.
Enter(g, kind, c, e, at) ==
    /\ ~crashed
    /\ pc[g] = "idle"
    /\ now < MaxPublish
    /\ calls' = Append(calls, Item(kind, Stamp(e, now + 1), c))
    /\ op' = [op EXCEPT ![g] = [kind |-> kind, client |-> c, ev |-> Stamp(e, now + 1),
                                 afterClose |-> closeReturned]]
    /\ pc' = [pc EXCEPT ![g] = at]
    /\ UNCHANGED <<wrapVars, busQueue, libVars, crashed, closeVars, handed,
                   subVars, restVars>>

Return(g) ==
    /\ pc' = [pc EXCEPT ![g] = "idle"]
    /\ op' = [op EXCEPT ![g] = NoOp]

\* The panic of eventbus.Publish[T] on a closed client ends the process.
Panic(g) ==
    /\ crashed' = TRUE
    /\ pc' = [pc EXCEPT ![g] = "panicked"]
    /\ UNCHANGED op

\* IsDuplicate, had lastState been a value starting as the zero snapshot
\* instead of a nil pointer.
IsDuplicateOfZeroWhenNil(e) ==
    Equals(e, IF lastState = <<>> THEN ZeroStateUpdateEvent ELSE lastState[1])

\* IsDuplicate, had it compared only the fields that are not readings.
IsDuplicateByCategory(e) ==
    /\ lastState # <<>>
    /\ e.HeatingActive = lastState[1].HeatingActive
    /\ e.Mode = lastState[1].Mode
    /\ e.HotWaterActive = lastState[1].HotWaterActive

\* b.lastState != nil && event.Equals(*b.lastState)
IsDuplicate(e) == lastState # <<>> /\ Equals(e, lastState[1])

CallPublishStateUpdate(g, c, e) == Enter(g, TState, c, e, "psu_lock")

\* PublishStateUpdateCheck, had it compared with lastState without taking
\* the lock.
PublishStateUpdateCheckUnlocked(g) ==
    /\ ~crashed
    /\ pc[g] = "psu_lock"
    /\ IF IsDuplicate(op[g].ev)
       THEN /\ Return(g)
            /\ UNCHANGED crashed
       ELSE IF PublishPanics(op[g].client)
            THEN Panic(g)
            ELSE /\ pc' = [pc EXCEPT ![g] = "psu_publish"]
                 /\ UNCHANGED <<op, crashed>>
    /\ UNCHANGED <<clients, mu, lastState, stateMu, busQueue, libVars, calls,
                   closeVars, handed, subVars, restVars>>

\* b.stateMu.Lock() and the comparison with lastState: a duplicate returns,
\* the deferred Unlock releasing the lock; otherwise
\* publisher := eventbus.Publish[StateUpdateEvent](client).
PublishStateUpdateCheck(g) ==
    /\ ~crashed
    /\ pc[g] = "psu_lock"
    /\ stateMu = "none"
    /\ IF IsDuplicate(op[g].ev)
       THEN /\ Return(g)
            /\ UNCHANGED <<stateMu, crashed>>
       ELSE /\ stateMu' = g
            /\ IF PublishPanics(op[g].client)
               THEN Panic(g)
               ELSE /\ pc' = [pc EXCEPT ![g] = "psu_publish"]
                    /\ UNCHANGED <<op, crashed>>
    /\ UNCHANGED <<clients, mu, lastState, busQueue, libVars, calls, closeVars,
                   handed, subVars, restVars>>

\* PublishStateUpdatePublish, had it not recorded the event as lastState.
PublishStateUpdatePublishKeepingLast(g) ==
    /\ ~crashed
    /\ pc[g] = "psu_publish"
    /\ IF PublisherStopped(op[g].client)
       THEN /\ Return(g)
            /\ UNCHANGED <<busQueue, handed>>
       ELSE /\ RouterAccepts
            /\ busQueue' = Append(busQueue, Item(TState, op[g].ev, op[g].client))
            /\ handed' = Append(handed, Item(TState, op[g].ev, op[g].client))
            /\ Return(g)
    /\ stateMu' = "none"
    /\ UNCHANGED <<clients, mu, lastState, libVars, crashed, calls, closeVars,
                   subVars, restVars>>

\* publisher.Publish(event); b.lastState = &event; then the deferred
\* publisher.Close() and b.stateMu.Unlock().
PublishStateUpdatePublish(g) ==
    /\ ~crashed
    /\ pc[g] = "psu_publish"
    /\ IF PublisherStopped(op[g].client)
       THEN /\ Return(g)
            /\ UNCHANGED <<busQueue, handed>>
       ELSE /\ RouterAccepts
            /\ busQueue' = Append(busQueue, Item(TState, op[g].ev, op[g].client))
            /\ handed' = Append(handed, Item(TState, op[g].ev, op[g].client))
            /\ Return(g)
    /\ lastState' = <<op[g].ev>>
    /\ stateMu' = "none"
    /\ UNCHANGED <<clients, mu, libVars, crashed, calls, closeVars, subVars, restVars>>

\* publisher := eventbus.Publish[T](client) of the two publish functions
\* without deduplication.
PlainNew(g, here, next) ==
    /\ ~crashed
    /\ pc[g] = here
    /\ IF PublishPanics(op[g].client)
       THEN Panic(g)
       ELSE /\ pc' = [pc EXCEPT ![g] = next]
            /\ UNCHANGED <<op, crashed>>
    /\ UNCHANGED <<wrapVars, busQueue, libVars, calls, closeVars, handed, subVars,
                   restVars>>

\* PlainPublish, had it skipped an event identical to the one before it.
PlainPublishDeduplicating(g, here) ==
    /\ ~crashed
    /\ pc[g] = here
    /\ LET h == OfType(handed, op[g].kind) IN
       IF \/ PublisherStopped(op[g].client)
          \/ h # <<>> /\ Stamp(h[Len(h)].ev, 0) = Stamp(op[g].ev, 0)
       THEN /\ Return(g)
            /\ UNCHANGED <<busQueue, handed>>
       ELSE /\ RouterAccepts
            /\ busQueue' = Append(busQueue, Item(op[g].kind, op[g].ev, op[g].client))
            /\ handed' = Append(handed, Item(op[g].kind, op[g].ev, op[g].client))
            /\ Return(g)
    /\ UNCHANGED <<wrapVars, libVars, crashed, calls, closeVars, subVars, restVars>>

\* publisher.Publish(event) and the deferred publisher.Close().
PlainPublish(g, here) ==
    /\ ~crashed
    /\ pc[g] = here
    /\ IF PublisherStopped(op[g].client)
       THEN /\ Return(g)
            /\ UNCHANGED <<busQueue, handed>>
       ELSE /\ RouterAccepts
            /\ busQueue' = Append(busQueue, Item(op[g].kind, op[g].ev, op[g].client))
            /\ handed' = Append(handed, Item(op[g].kind, op[g].ev, op[g].client))
            /\ Return(g)
    /\ UNCHANGED <<wrapVars, libVars, crashed, calls, closeVars, subVars, restVars>>

CallPublishCommand(g, c, e) == Enter(g, TCommand, c, e, "cmd_new")
PublishCommandNew(g) == PlainNew(g, "cmd_new", "cmd_publish")
PublishCommandPublish(g) == PlainPublish(g, "cmd_publish")

CallPublishConnectionStatus(g, c, e) == Enter(g, TStatus, c, e, "status_new")
PublishConnectionStatusNew(g) == PlainNew(g, "status_new", "status_publish")
PublishConnectionStatusPublish(g) == PlainPublish(g, "status_publish")

\* Bus.Close is entered: b.cancel() touches nothing the model holds.
CallClose(g) ==
    /\ ~crashed
    /\ pc[g] = "idle"
    /\ nClose < MaxClose
    /\ nClose' = nClose + 1
    /\ op' = [op EXCEPT ![g] = [NoOp EXCEPT !.kind = "Close"]]
    /\ pc' = [pc EXCEPT ![g] = "close_lock"]
    /\ UNCHANGED <<wrapVars, busQueue, libVars, crashed, calls, closeReturned,
                   handed, subVars, restVars>>

\* b.mu.Lock()
CloseLock(g) ==
    /\ ~crashed
    /\ pc[g] = "close_lock"
    /\ mu = "none"
    /\ mu' = g
    /\ pc' = [pc EXCEPT ![g] = "close_loop"]
    /\ UNCHANGED <<clients, lastState, stateMu, busQueue, libVars, op,
                   crashed, calls, closeVars, handed, subVars, restVars>>

\* One turn of the loop over b.clients (a Go map: any order):
\* client.Close(); delete(b.clients, name).
CloseClient(g, name) ==
    /\ ~crashed
    /\ pc[g] = "close_loop"
    /\ name \in clients
    /\ ClientClose(name)
    /\ clients' = clients \ {name}
    /\ UNCHANGED <<mu, lastState, stateMu, busQueue, routing, routingActive,
                   callVars, crashed, calls, closeVars, handed, subVars, restVars>>

\* The loop is over: the deferred b.mu.Unlock() and return nil.
CloseReturn(g) ==
    /\ ~crashed
    /\ pc[g] = "close_loop"
    /\ clients = {}
    /\ mu' = "none"
    /\ closeReturned' = TRUE
    /\ Return(g)
    /\ UNCHANGED <<clients, lastState, stateMu, busQueue, libVars, crashed, calls,
                   nClose, handed, subVars, restVars>>

-----------------------------------------------------------------------------
(* The bus in operation: goroutines publishing state updates, consumers of *)
(* state updates, and the library's goroutines.                            *)

StatePublishing(inputs, handles) ==
    \/ \E g \in Goroutines, c \in handles, e \in inputs :
           CallPublishStateUpdate(g, c, e)
    \/ \E g \in Goroutines : PublishStateUpdateCheck(g)
    \/ \E g \in Goroutines : PublishStateUpdatePublish(g)

PlainPublishing(commands, statuses) ==
    \/ \E g \in Goroutines, c \in CommandPubClients, e \in commands :
           CallPublishCommand(g, c, e)
    \/ \E g \in Goroutines : PublishCommandNew(g)
    \/ \E g \in Goroutines : PublishCommandPublish(g)
    \/ \E g \in Goroutines, c \in StatusPubClients, e \in statuses :
           CallPublishConnectionStatus(g, c, e)
    \/ \E g \in Goroutines : PublishConnectionStatusNew(g)
    \/ \E g \in Goroutines : PublishConnectionStatusPublish(g)

Consuming(targets) ==
    \/ \E st \in targets : Subscribe(st[1], st[2])
    \/ \E c \in ClientNames : Receive(c)

Unsubscribing(targets) ==
    \E st \in targets : SubscriberClose(st[1], st[2])

Routing ==
    \/ RouterRoute
    \/ RouterDeliver

Library ==
    \/ Routing
    \/ \E c \in ClientNames : Discard(c)

Closing ==
    \/ \E g \in Goroutines : CallClose(g)
    \/ \E g \in Goroutines : CloseLock(g)
    \/ \E g \in Goroutines, name \in ClientNames : CloseClient(g, name)
    \/ \E g \in Goroutines : CloseReturn(g)

Next ==
    \/ StatePublishing(StateInputs, StatePubClients)
    \/ Consuming(StateSubTargets)
    \/ Unsubscribing(StateSubTargets)
    \/ Library

Spec == Init /\ [][Next]_vars

\* The three kinds of event together: commands and connection statuses,
\* and a state update so that lastState is set.
MixedStateInputs == { BaseState("nefit", 4300) }
MixedCommandInputs ==
    { CommandEvent(0, "homekit", CommandTypeSetTemperature, <<4600>>, <<>>, <<>>) }
MixedStatusInputs ==
    { ConnectionStatusEvent(0, "nefit", ConnectionStatusReconnecting, "timeout", 1) }

NextMixed ==
    \/ StatePublishing(MixedStateInputs, StatePubClients)
    \/ PlainPublishing(MixedCommandInputs, MixedStatusInputs)
    \/ Consuming(PlainSubTargets)
    \/ Unsubscribing(PlainSubTargets)
    \/ Library

SpecMixed == Init /\ [][NextMixed]_vars

\* The bus being closed while goroutines publish through the handles they
\* hold and consumers subscribe.  Subscriptions end with their client here,
\* so no client's queue ever holds an event without subscriber.
ClosingStateInputs == { BaseState("nefit", 4300) }
ClosingCommandInputs ==
    { CommandEvent(0, "homekit", CommandTypeSetTemperature, <<4600>>, <<>>, <<>>) }
ClosingStatusInputs ==
    { ConnectionStatusEvent(0, "nefit", ConnectionStatusConnected, "", 0) }
ClosingSubTargets == { <<ClientHomeKit, TState>> }

NextClosing ==
    \/ StatePublishing(ClosingStateInputs, StatePubClients)
    \/ PlainPublishing(ClosingCommandInputs, ClosingStatusInputs)
    \/ Consuming(ClosingSubTargets)
    \/ Routing
    \/ Closing

SpecClosing == Init /\ [][NextClosing]_vars

-----------------------------------------------------------------------------
(* nefit.Client: Start, connectWithRetry and Close.  The goroutine of       *)
(* connectWithRetry runs in steps; connPc is the statement it is at.  The   *)
(* status events the client publishes are kept in statusLog, in the order   *)
(* in which Bus.PublishConnectionStatus was called with them.  Durations    *)
(* are whole seconds, far below the range of time.Duration.                  *)

\* Validate, had it not compared the maximum wait with the first wait.
ValidateWithoutMaxCheck(c) ==
    /\ c.XMPPKeepaliveInterval >= 1
    /\ c.XMPPReconnectBackoff >= 1

\* Config.Validate, the checks of the three timings: TRUE is a nil error.
Validate(c) ==
    /\ c.XMPPKeepaliveInterval >= 1
    /\ c.XMPPReconnectBackoff >= 1
    /\ c.XMPPMaxReconnectWait >= c.XMPPReconnectBackoff

\* The settings Load is tried with, and those it accepts.
CandidateConfigs ==
    { Config(k, b0, bmax) : k \in {0, 30}, b0 \in {0, 1, 5}, bmax \in {0, 1, 12} }
LoadedConfigs == { c \in CandidateConfigs : Validate(c) }

\* What nefitClient.Connect returns: nil, or an error.
ConnectErrors == {"timeout", "refused"}
ConnectResults == {"ok"} \cup ConnectErrors

\* publishConnectionStatus, had it left the error text out.
publishConnectionStatusWithoutError(status, errMsg) ==
    statusLog' = Append(statusLog,
                        ConnectionStatusEvent(0, "nefit", status, "", reconnectNum))

\* func (c *Client) publishConnectionStatus(status, errMsg)
publishConnectionStatus(status, errMsg) ==
    statusLog' = Append(statusLog,
                        ConnectionStatusEvent(0, "nefit", status, errMsg, reconnectNum))

\* Client.Start: go c.handleCommands(); go c.connectWithRetry(); return nil.
Start ==
    /\ connPc = "not_started" /\ cmdPc = "not_started"
    /\ connPc' = "entry"
    /\ cmdPc' = "subscribe"
    /\ startedAt' = <<Len(handed)>>
    /\ UNCHANGED <<busVars, eqVars, otherVars, cfg, backoff, reconnectNum,
                   ctxDone, statusLog,
                   waits, attemptLog, link, polling, closePc, closeAt,
                   cmdCur, cmdSeen, handledLog, puts, fetches>>

\* backoff := c.cfg.XMPPReconnectBackoff
connectWithRetryEntry ==
    /\ connPc = "entry"
    /\ backoff' = cfg.XMPPReconnectBackoff
    /\ connPc' = "top"
    /\ UNCHANGED <<busVars, eqVars, otherVars, cmdVars, cfg, reconnectNum,
                   ctxDone, statusLog,
                   waits, attemptLog, link, polling, closePc, closeAt>>

\* The head of the loop: select { case <-c.ctx.Done(): return; default: }
connectWithRetryCheckCtx ==
    /\ connPc = "top"
    /\ connPc' = IF ctxDone THEN "returned" ELSE "publish_connecting"
    /\ UNCHANGED <<busVars, eqVars, otherVars, cmdVars, cfg, backoff,
                   reconnectNum, ctxDone,
                   statusLog, waits, attemptLog, link, polling, closePc, closeAt>>

\* connectWithRetryPublishConnecting, had it gone on to Connect without
\* publishing.
connectWithRetryPublishConnectingSilent ==
    /\ connPc = "publish_connecting"
    /\ connPc' = "connect"
    /\ UNCHANGED <<busVars, eqVars, otherVars, cmdVars, cfg, backoff,
                   reconnectNum, ctxDone, statusLog,
                   waits, attemptLog, link, polling, closePc, closeAt>>

\* c.publishConnectionStatus(events.ConnectionStatusConnecting, "")
connectWithRetryPublishConnecting ==
    /\ connPc = "publish_connecting"
    /\ publishConnectionStatus(ConnectionStatusConnecting, "")
    /\ connPc' = "connect"
    /\ UNCHANGED <<busVars, eqVars, otherVars, cmdVars, cfg, backoff,
                   reconnectNum, ctxDone,
                   waits, attemptLog, link, polling, closePc, closeAt>>

\* err := c.nefitClient.Connect(c.ctx); on an error, c.reconnectNum++.
\* attemptLog keeps each result and how many status events preceded it.
\* The bound on the calls holds until shutdown, after which the loop makes
\* at most one more.
connectWithRetryConnect(results) ==
    /\ connPc = "connect"
    /\ Len(attemptLog) < MaxAttempts \/ ctxDone
    /\ \E r \in results :
          /\ attemptLog' = Append(attemptLog,
                                   [result |-> r, published |-> Len(statusLog)])
          /\ IF r = "ok"
             THEN /\ link' = "up"
                  /\ connPc' = "publish_connected"
                  /\ UNCHANGED reconnectNum
             ELSE /\ reconnectNum' = reconnectNum + 1
                  /\ connPc' = "publish_reconnecting"
                  /\ UNCHANGED link
    /\ UNCHANGED <<busVars, eqVars, otherVars, cmdVars, cfg, backoff,
                   ctxDone, statusLog,
                   waits, polling, closePc, closeAt>>

\* c.publishConnectionStatus(events.ConnectionStatusConnected, "")
connectWithRetryPublishConnected ==
    /\ connPc = "publish_connected"
    /\ publishConnectionStatus(ConnectionStatusConnected, "")
    /\ connPc' = "reset"
    /\ UNCHANGED <<busVars, eqVars, otherVars, cmdVars, cfg, backoff,
                   reconnectNum, ctxDone,
                   waits, attemptLog, link, polling, closePc, closeAt>>

\* connectWithRetryReset, had the loop gone on to its next round after a
\* successful Connect.
connectWithRetryResetAndRetry ==
    /\ connPc = "reset"
    /\ reconnectNum' = 0
    /\ polling' = TRUE
    /\ pollPc' = "waiting"
    /\ pollLog' = Append(pollLog, [kind |-> "start", ok |-> TRUE])
    /\ connPc' = "top"
    /\ UNCHANGED <<busVars, eqVars, cmdVars, cfg, backoff, ctxDone, statusLog,
                   waits, attemptLog, link, closePc, closeAt, pushLog, shutdownLog, webVars,
                   mainPc, loaded>>

\* c.reconnectNum = 0; go c.pollStatus(); then the wait on c.ctx.Done().
\* pollLog keeps each start of pollStatus and each of its status fetches.
connectWithRetryReset ==
    /\ connPc = "reset"
    /\ reconnectNum' = 0
    /\ polling' = TRUE
    /\ pollPc' = "waiting"
    /\ pollLog' = Append(pollLog, [kind |-> "start", ok |-> TRUE])
    /\ connPc' = "connected"
    /\ UNCHANGED <<busVars, eqVars, cmdVars, cfg, backoff, ctxDone, statusLog,
                   waits, attemptLog, link, closePc, closeAt, pushLog, shutdownLog, webVars,
                   mainPc, loaded>>

\* <-c.ctx.Done(); return
connectWithRetryConnectedDone ==
    /\ connPc = "connected"
    /\ ctxDone
    /\ connPc' = "returned"
    /\ UNCHANGED <<busVars, eqVars, otherVars, cmdVars, cfg, backoff,
                   reconnectNum, ctxDone,
                   statusLog, waits, attemptLog, link, polling, closePc, closeAt>>

\* c.publishConnectionStatus(events.ConnectionStatusReconnecting, err.Error()),
\* then the select on time.After(backoff) begins.
connectWithRetryPublishReconnecting ==
    /\ connPc = "publish_reconnecting"
    /\ publishConnectionStatus(ConnectionStatusReconnecting,
                               attemptLog[Len(attemptLog)].result)
    /\ waits' = Append(waits, backoff)
    /\ connPc' = "backoff"
    /\ UNCHANGED <<busVars, eqVars, otherVars, cmdVars, cfg, backoff,
                   reconnectNum, ctxDone,
                   attemptLog, link, polling, closePc, closeAt>>

\* backoff *= 2 on a time.Duration: the product wraps around at the width of
\* the type, as Go's signed integers do.
TimesTwo(d) ==
    LET m == 2 ^ DurationBits
        r == (d + d) % m
    IN  IF r >= m \div 2 THEN r - m ELSE r

\* connectWithRetryBackoffElapsed, had it doubled without the cap.
connectWithRetryBackoffElapsedUncapped ==
    /\ connPc = "backoff"
    /\ backoff' = TimesTwo(backoff)
    /\ connPc' = "top"
    /\ UNCHANGED <<busVars, eqVars, otherVars, cmdVars, cfg, reconnectNum,
                   ctxDone, statusLog,
                   waits, attemptLog, link, polling, closePc, closeAt>>

\* case <-time.After(backoff): backoff *= 2, capped at XMPPMaxReconnectWait
connectWithRetryBackoffElapsed ==
    /\ connPc = "backoff"
    /\ backoff' = IF TimesTwo(backoff) > cfg.XMPPMaxReconnectWait
                  THEN cfg.XMPPMaxReconnectWait
                  ELSE TimesTwo(backoff)
    /\ connPc' = "top"
    /\ UNCHANGED <<busVars, eqVars, otherVars, cmdVars, cfg, reconnectNum,
                   ctxDone, statusLog,
                   waits, attemptLog, link, polling, closePc, closeAt>>

\* case <-c.ctx.Done(): return
connectWithRetryBackoffCancelled ==
    /\ connPc = "backoff"
    /\ ctxDone
    /\ connPc' = "returned"
    /\ UNCHANGED <<busVars, eqVars, otherVars, cmdVars, cfg, backoff,
                   reconnectNum, ctxDone,
                   statusLog, waits, attemptLog, link, polling, closePc, closeAt>>

\* The device link is lost while connected.
LinkLost ==
    /\ link = "up"
    /\ link' = "lost"
    /\ UNCHANGED <<busVars, eqVars, otherVars, cmdVars, cfg, backoff,
                   reconnectNum, connPc,
                   ctxDone, statusLog, waits, attemptLog, polling, closePc, closeAt>>

\* Client.Close is called (by run's deferred call); closeAt keeps where the
\* connection loop was and how many Connect calls it had made.
NefitCloseCall ==
    /\ connPc # "not_started"
    /\ closePc = "idle"
    /\ closePc' = "publish"
    /\ closeAt' = <<[pc |-> connPc, attempts |-> Len(attemptLog)]>>
    /\ UNCHANGED <<busVars, eqVars, otherVars, cmdVars, cfg, backoff,
                   reconnectNum, connPc,
                   ctxDone, statusLog, waits, attemptLog, link, polling>>

\* c.publishConnectionStatus(events.ConnectionStatusDisconnected, "")
NefitClosePublishDisconnected ==
    /\ closePc = "publish"
    /\ publishConnectionStatus(ConnectionStatusDisconnected, "")
    /\ closePc' = "cancel"
    /\ UNCHANGED <<busVars, eqVars, otherVars, cmdVars, cfg, backoff,
                   reconnectNum, connPc,
                   ctxDone, waits, attemptLog, link, polling, closeAt>>

\* c.cancel()
NefitCloseCancel ==
    /\ closePc = "cancel"
    /\ ctxDone' = TRUE
    /\ closePc' = "close_link"
    /\ UNCHANGED <<busVars, eqVars, otherVars, cmdVars, cfg, backoff,
                   reconnectNum, connPc,
                   statusLog, waits, attemptLog, link, polling, closeAt>>

\* c.nefitClient.Close() returns, which it does when the link answers; return
NefitCloseLink ==
    /\ closePc = "close_link"
    /\ link # "hung"
    /\ link' = "down"
    /\ closePc' = "done"
    /\ UNCHANGED <<busVars, eqVars, otherVars, cmdVars, cfg, backoff,
                   reconnectNum, connPc,
                   ctxDone, statusLog, waits, attemptLog, polling, closeAt>>

NefitClose ==
    \/ NefitCloseCall
    \/ NefitClosePublishDisconnected
    \/ NefitCloseCancel
    \/ NefitCloseLink

connectWithRetry(results) ==
    \/ connectWithRetryEntry
    \/ connectWithRetryCheckCtx
    \/ connectWithRetryPublishConnecting
    \/ connectWithRetryConnect(results)
    \/ connectWithRetryPublishConnected
    \/ connectWithRetryReset
    \/ connectWithRetryConnectedDone
    \/ connectWithRetryPublishReconnecting
    \/ connectWithRetryBackoffElapsed
    \/ connectWithRetryBackoffCancelled

\* The retry goroutine is at a statement that writes c.reconnectNum:
\* c.reconnectNum++ once the Connect in flight has failed, c.reconnectNum = 0.
RetryWritesReconnectNum == connPc \in {"connect", "reset"}

\* The goroutine calling Close is at the publishConnectionStatus that reads
\* c.reconnectNum; Client has no mutex, and nothing orders the two goroutines
\* before c.cancel().
CloseReadsReconnectNum == closePc = "publish"

\* The client after New, with any settings Load accepts.
ConnectInit ==
    /\ BusInit /\ EqIdle
    /\ \E c \in LoadedConfigs : NefitNew(c)

ConnectNext ==
    \/ Start
    \/ connectWithRetry(ConnectResults)
    \/ LinkLost
    \/ NefitClose

ConnectSpec == ConnectInit /\ [][ConnectNext]_vars

(* The backend is unreachable and nobody shuts the client down: every       *)
(* Connect fails and Close is never called.  The goroutine is scheduled,    *)
(* Connect returns and the timer of time.After fires, so the loop's next    *)
(* step is always taken in the end.                                          *)
RetryNext ==
    \/ Start
    \/ connectWithRetryEntry
    \/ connectWithRetryCheckCtx
    \/ connectWithRetryPublishConnecting
    \/ connectWithRetryConnect(ConnectErrors)
    \/ connectWithRetryPublishReconnecting
    \/ connectWithRetryBackoffElapsed

RetrySpec == ConnectInit /\ [][RetryNext]_vars /\ WF_vars(RetryNext)

\* Settings Validate accepts, among them waits of the order of the largest
\* time.Duration.
ExtremeConfig == Config(30, 1500, 2000)
AcceptedConfigs == { c \in CandidateConfigs \cup {ExtremeConfig} : Validate(c) }

BackoffInit ==
    /\ BusInit /\ EqIdle
    /\ \E c \in AcceptedConfigs : NefitNew(c)

BackoffSpec == BackoffInit /\ [][RetryNext]_vars

-----------------------------------------------------------------------------
(* nefit.Client: handleCommands, handleCommand and fetchAndPublishStatus.   *)
(* cmdPc is the statement the command goroutine (or a direct caller of      *)
(* handleCommand) is at; cmdSeen keeps the events taken from the            *)
(* subscription, handledLog the calls of handleCommand, puts and fetches the *)
(* requests sent over the device link, each with the call it belongs to.    *)

\* types.Status, the fields publishStateUpdate reads.
Status(inHouseTemp, tempSetpoint, boilerIndicator, userMode, hotWaterActive) ==
    [InHouseTemp |-> inHouseTemp, TempSetpoint |-> tempSetpoint,
     BoilerIndicator |-> boilerIndicator, UserMode |-> userMode,
     HotWaterActive |-> hotWaterActive]

\* What the device answers to Get(types.URIStatus): 21.5 degrees measured,
\* 22.0 set, the boiler heating.
DeviceStatus == Status(4300, 4400, "CH", "manual", TRUE)

\* var status types.Status
ZeroStatus == Status(0, 0, "", "", FALSE)

\* publishStateUpdate, the event it builds; the Timestamp is left unset.
publishStateUpdateEvent(status) ==
    StateUpdateEvent(0, "nefit", status.InHouseTemp, status.TempSetpoint,
                     status.BoilerIndicator \in {"CH", "HW"},
                     IF status.UserMode = "off" THEN "off" ELSE "heat",
                     0, status.HotWaterActive, 0)

\* The commands consumers publish: one of each kind, one carrying the
\* client's own name as Source, one without its value, one of no known kind.
CmdTemperature ==
    CommandEvent(0, "homekit", CommandTypeSetTemperature, <<4400>>, <<>>, <<>>)
CmdMode == CommandEvent(0, "web", CommandTypeSetMode, <<>>, <<"off">>, <<>>)
CmdHotWater ==
    CommandEvent(0, "homekit", CommandTypeSetHotWater, <<>>, <<>>, <<TRUE>>)
CmdOwn == CommandEvent(0, "nefit", CommandTypeSetTemperature, <<4400>>, <<>>, <<>>)
CmdMissing == CommandEvent(0, "web", CommandTypeSetMode, <<>>, <<>>, <<>>)
CmdUnknown == CommandEvent(0, "homekit", "reboot", <<>>, <<>>, <<>>)
\* Commands without the value of their kind but with a value of another kind.
CmdTemperatureMissing ==
    CommandEvent(0, "web", CommandTypeSetTemperature, <<>>, <<"heat">>, <<>>)
CmdHotWaterMissing ==
    CommandEvent(0, "web", CommandTypeSetHotWater, <<4400>>, <<>>, <<>>)

\* A set-mode command whose mode is neither "heat" nor "off".
CmdModeUnknown == CommandEvent(0, "web", CommandTypeSetMode, <<>>, <<"auto">>, <<>>)

\* PutRequest, had it sent a zero value where the command carries none.
PutRequestDefaulting(cmd) ==
    CASE cmd.CommandType = CommandTypeSetTemperature ->
            <<[uri |-> "URIManualSetpoint",
               value |-> IF cmd.TargetTemperature = <<>> THEN <<0>>
                         ELSE cmd.TargetTemperature]>>
      [] cmd.CommandType = CommandTypeSetMode ->
            <<[uri |-> "URIUserMode",
               value |-> IF cmd.Mode = <<"off">> THEN <<"off">> ELSE <<"manual">>]>>
      [] cmd.CommandType = CommandTypeSetHotWater ->
            <<[uri |-> "URIHotWaterManualMode",
               value |-> IF cmd.HotWaterEnabled = <<TRUE>> THEN <<"on">> ELSE <<"off">>]>>
      [] OTHER -> <<>>

\* The request handleCommand sends for a command, none when the value is
\* missing or the type unknown.
PutRequest(cmd) ==
    CASE cmd.CommandType = CommandTypeSetTemperature ->
            IF cmd.TargetTemperature = <<>> THEN <<>>
            ELSE <<[uri |-> "URIManualSetpoint", value |-> cmd.TargetTemperature]>>
      [] cmd.CommandType = CommandTypeSetMode ->
            IF cmd.Mode = <<>> THEN <<>>
            ELSE <<[uri |-> "URIUserMode",
                    value |-> IF cmd.Mode[1] = "off" THEN <<"off">> ELSE <<"manual">>]>>
      [] cmd.CommandType = CommandTypeSetHotWater ->
            IF cmd.HotWaterEnabled = <<>> THEN <<>>
            ELSE <<[uri |-> "URIHotWaterManualMode",
                    value |-> IF cmd.HotWaterEnabled[1] THEN <<"on">> ELSE <<"off">>]>>
      [] OTHER -> <<>>

\* The cases of handleCommand that call fetchAndPublishStatus after the Put.
FetchesAfterPut(cmd) ==
    cmd.CommandType \in {CommandTypeSetTemperature, CommandTypeSetMode}

\* The filter of handleCommands, had it let every command through.
IgnoredNever(event) == FALSE

\* handleCommands: if event.Source == "nefit" { continue }
Ignored(event) == event.Source = "nefit"

EnterHandleCommand(cmd, via) ==
    LET call == [id |-> Len(handledLog) + 1, via |-> via, cmd |-> cmd] IN
    /\ cmdCur' = call
    /\ handledLog' = Append(handledLog, call)
    /\ cmdPc' = "dispatch"

ReturnHandleCommand ==
    /\ cmdPc' = IF cmdCur.via = "loop" THEN "waiting" ELSE "not_started"
    /\ cmdCur' = NoCommand

\* sub := eventbus.Subscribe[events.CommandEvent](c.client)
handleCommandsSubscribe ==
    /\ ~crashed
    /\ cmdPc = "subscribe"
    /\ nSubs < MaxSubs
    /\ IF ClientNefit \in clientClosed
       THEN /\ crashed' = TRUE
            /\ UNCHANGED <<nSubs, subGen, topics, subInfo, cmdPc>>
       ELSE /\ nSubs' = nSubs + 1
            /\ subGen' = [subGen EXCEPT ![ClientNefit][TCommand] = nSubs + 1]
            /\ topics' = [topics EXCEPT ![TCommand] = Append(@, ClientNefit)]
            /\ subInfo' = [subInfo EXCEPT ![nSubs + 1] =
                              [client |-> ClientNefit, type |-> TCommand,
                               handedBefore |-> Len(handed),
                               queuedAt |-> QueuedFor(ClientNefit, TCommand)]]
            /\ cmdPc' = "waiting"
            /\ UNCHANGED crashed
    /\ UNCHANGED <<wrapVars, clientClosed, closeCount, busQueue, routing,
                   routingActive, cq, callVars, calls, closeVars, handed, received,
                   eqVars, otherVars, connVars, cmdCur, cmdSeen, handledLog, puts, fetches,
                   startedAt>>

\* case event := <-sub.Events(): a command of the client's own is skipped,
\* any other is passed to handleCommand.
handleCommandsTake ==
    /\ ~crashed
    /\ cmdPc = "waiting"
    /\ cq[ClientNefit] # <<>>
    /\ Head(cq[ClientNefit]).type = TCommand
    /\ subGen[ClientNefit][TCommand] # 0
    /\ received' = [received EXCEPT ![subGen[ClientNefit][TCommand]] =
                       Append(@, Head(cq[ClientNefit]))]
    /\ cq' = [cq EXCEPT ![ClientNefit] = Tail(@)]
    /\ LET event == Head(cq[ClientNefit]).ev IN
       /\ cmdSeen' = Append(cmdSeen, event)
       /\ IF Ignored(event)
          THEN UNCHANGED <<cmdPc, cmdCur, handledLog>>
          ELSE EnterHandleCommand(event, "loop")
    /\ UNCHANGED <<wrapVars, clientClosed, closeCount, busQueue, routing,
                   routingActive, topics, subGen, callVars, crashed, calls,
                   closeVars, handed, nSubs, subInfo, eqVars, otherVars, connVars, puts,
                   fetches, startedAt>>

\* case <-c.ctx.Done(): return, and the deferred sub.Close()
handleCommandsStop ==
    /\ ~crashed
    /\ cmdPc = "waiting"
    /\ ctxDone
    /\ cmdPc' = "stopped"
    /\ subGen' = [subGen EXCEPT ![ClientNefit][TCommand] = 0]
    /\ topics' = [topics EXCEPT ![TCommand] = SeqRemove(@, ClientNefit)]
    /\ UNCHANGED <<wrapVars, clientClosed, closeCount, busQueue, routing,
                   routingActive, cq, callVars, crashed, calls, closeVars, handed,
                   subVars, eqVars, otherVars, connVars, cmdCur, cmdSeen, handledLog, puts,
                   fetches, startedAt>>

\* client.handleCommand(cmd), called on a client that was not started, as
\* the package's tests do.
handleCommandDirect(cmd) ==
    /\ cmdPc = "not_started"
    /\ Len(handledLog) < MaxDirect
    /\ EnterHandleCommand(cmd, "direct")
    /\ UNCHANGED <<busVars, eqVars, otherVars, connVars, cmdSeen, puts,
                   fetches, startedAt>>

\* handleCommand: the switch on cmd.CommandType and the nil checks.
handleCommandDispatch ==
    /\ cmdPc = "dispatch"
    /\ IF PutRequest(cmdCur.cmd) = <<>>
       THEN ReturnHandleCommand
       ELSE /\ cmdPc' = "put"
            /\ UNCHANGED cmdCur
    /\ UNCHANGED <<busVars, eqVars, otherVars, connVars, cmdSeen, handledLog,
                   puts, fetches,
                   startedAt>>

\* handleCommandPut, had it gone on to the status fetch after a failed Put.
handleCommandPutFetchingAfterFailure ==
    /\ cmdPc = "put"
    /\ \E ok \in BOOLEAN :
          /\ puts' = Append(puts, [id |-> cmdCur.id, ok |-> ok,
                                   req |-> PutRequest(cmdCur.cmd)[1]])
          /\ IF FetchesAfterPut(cmdCur.cmd)
             THEN /\ cmdPc' = "fetch"
                  /\ UNCHANGED cmdCur
             ELSE ReturnHandleCommand
    /\ UNCHANGED <<busVars, eqVars, otherVars, connVars, cmdSeen, handledLog,
                   fetches,
                   startedAt>>

\* handleCommand: c.nefitClient.Put(ctx, uri, value); an error returns.
handleCommandPut ==
    /\ cmdPc = "put"
    /\ \E ok \in BOOLEAN :
          /\ puts' = Append(puts, [id |-> cmdCur.id, ok |-> ok,
                                   req |-> PutRequest(cmdCur.cmd)[1]])
          /\ IF ok /\ FetchesAfterPut(cmdCur.cmd)
             THEN /\ cmdPc' = "fetch"
                  /\ UNCHANGED cmdCur
             ELSE ReturnHandleCommand
    /\ UNCHANGED <<busVars, eqVars, otherVars, connVars, cmdSeen, handledLog,
                   fetches,
                   startedAt>>

\* fetchAndPublishStatusGet, had a status that was fetched counted as a
\* connection made anew.
fetchAndPublishStatusGetResettingCounter ==
    /\ cmdPc = "fetch"
    /\ \E ok \in BOOLEAN :
          /\ fetches' = Append(fetches, [id |-> cmdCur.id, ok |-> ok])
          /\ IF ok
             THEN /\ cmdPc' = "publish"
                  /\ reconnectNum' = 0
                  /\ UNCHANGED cmdCur
             ELSE /\ ReturnHandleCommand
                  /\ UNCHANGED reconnectNum
    /\ UNCHANGED <<busVars, eqVars, otherVars, cmdSeen, handledLog,
                   puts, startedAt, cfg, backoff, connPc, ctxDone, statusLog,
                   waits, attemptLog, link, polling, closePc, closeAt>>

\* fetchAndPublishStatus: c.nefitClient.Get(ctx, types.URIStatus); an error
\* returns.
fetchAndPublishStatusGet ==
    /\ cmdPc = "fetch"
    /\ \E ok \in BOOLEAN :
          /\ fetches' = Append(fetches, [id |-> cmdCur.id, ok |-> ok])
          /\ IF ok
             THEN /\ cmdPc' = "publish"
                  /\ UNCHANGED cmdCur
             ELSE ReturnHandleCommand
    /\ UNCHANGED <<busVars, eqVars, otherVars, connVars, cmdSeen, handledLog,
                   puts, startedAt>>

\* fetchAndPublishStatus: c.publishStateUpdate(status) with the zero status,
\* through Bus.PublishStateUpdate; then handleCommand returns.
fetchAndPublishStatusPublish ==
    /\ ~crashed
    /\ cmdPc = "publish"
    /\ stateMu = "none"
    /\ LET e == publishStateUpdateEvent(ZeroStatus) IN
       IF IsDuplicate(e)
       THEN UNCHANGED <<lastState, busQueue, handed>>
       ELSE /\ RouterAccepts
            /\ busQueue' = Append(busQueue, Item(TState, e, ClientNefit))
            /\ handed' = Append(handed, Item(TState, e, ClientNefit))
            /\ lastState' = <<e>>
    /\ ReturnHandleCommand
    /\ UNCHANGED <<clients, mu, stateMu, libVars, callVars, crashed, calls,
                   closeVars, subVars, eqVars, otherVars, connVars, cmdSeen, handledLog, puts,
                   fetches, startedAt>>

handleCommand ==
    \/ handleCommandDispatch
    \/ handleCommandPut
    \/ fetchAndPublishStatusGet
    \/ fetchAndPublishStatusPublish

handleCommands ==
    \/ handleCommandsSubscribe
    \/ handleCommandsTake
    \/ handleCommandsStop

\* The commands consumers publish on the bus while the client runs.
CommandInputs == {CmdTemperature, CmdMode, CmdHotWater, CmdOwn}

\* The goroutine of the HomeKit server's accessory callbacks.
CommandPublishers == {"g1"}

CommandNext ==
    \/ Start
    \/ handleCommands
    \/ handleCommand
    \/ \E g \in CommandPublishers, c \in CommandPubClients, e \in CommandInputs :
           CallPublishCommand(g, c, e)
    \/ \E g \in CommandPublishers : PublishCommandNew(g)
    \/ \E g \in CommandPublishers : PublishCommandPublish(g)
    \/ Library
    \/ NefitClose

CommandSpec == Init /\ [][CommandNext]_vars

\* handleCommand called directly, one call after the other, on a client
\* that was not started.
DirectInputs ==
    CommandInputs \cup {CmdMissing, CmdTemperatureMissing, CmdHotWaterMissing,
                        CmdUnknown, CmdModeUnknown}

DirectNext ==
    \/ \E cmd \in DirectInputs : handleCommandDirect(cmd)
    \/ handleCommand
    \/ RouterRoute

DirectSpec == Init /\ [][DirectNext]_vars

-----------------------------------------------------------------------------
(* nefit.Client: pollStatus, the keepalive loop started after a successful  *)
(* Connect.                                                                  *)

PollFetches == SelectSeq(pollLog, LAMBDA f : f.kind = "fetch")

\* case <-ticker.C: fetchAndPublishStatus, its Get; an error is logged.
pollStatusTick ==
    /\ pollPc = "waiting"
    /\ Len(PollFetches) < MaxPolls
    /\ \E ok \in BOOLEAN :
          /\ pollLog' = Append(pollLog, [kind |-> "fetch", ok |-> ok])
          /\ pollPc' = IF ok THEN "publish" ELSE "waiting"
    /\ UNCHANGED <<busVars, eqVars, connVars, cmdVars, pushLog, shutdownLog, webVars, mainPc, loaded>>

\* fetchAndPublishStatus of the tick: c.publishStateUpdate(status) with the
\* zero status, through Bus.PublishStateUpdate.
pollStatusPublish ==
    /\ ~crashed
    /\ pollPc = "publish"
    /\ stateMu = "none"
    /\ LET e == publishStateUpdateEvent(ZeroStatus) IN
       IF IsDuplicate(e)
       THEN UNCHANGED <<lastState, busQueue, handed>>
       ELSE /\ RouterAccepts
            /\ busQueue' = Append(busQueue, Item(TState, e, ClientNefit))
            /\ handed' = Append(handed, Item(TState, e, ClientNefit))
            /\ lastState' = <<e>>
    /\ pollPc' = "waiting"
    /\ UNCHANGED <<clients, mu, stateMu, libVars, callVars, crashed, calls,
                   closeVars, subVars, eqVars, connVars, cmdVars, pollLog,
                   pushLog, shutdownLog, webVars, mainPc, loaded>>

\* pollStatusStop, had the loop waited for the ticker only.
pollStatusStopNever ==
    /\ pollPc = "waiting"
    /\ FALSE
    /\ UNCHANGED vars

\* case <-c.ctx.Done(): return
pollStatusStop ==
    /\ pollPc = "waiting"
    /\ ctxDone
    /\ pollPc' = "returned"
    /\ UNCHANGED <<busVars, eqVars, connVars, cmdVars, pollLog, pushLog, shutdownLog, webVars, mainPc,
                   loaded>>

pollStatus ==
    \/ pollStatusTick
    \/ pollStatusPublish
    \/ pollStatusStop

\* The running client being shut down while its goroutines wait: the retry
\* loop, the keepalive loop, the command loop with no command arriving, the
\* bus, and Client.Close.  Every goroutine is scheduled, every call on the
\* device link returns (each is given a context that ends with the
\* client's), and the bus moves.
ShutdownResults == {"ok", "timeout"}

ShutdownLoops ==
    \/ connectWithRetry(ShutdownResults)
    \/ pollStatus
    \/ handleCommandsSubscribe
    \/ handleCommandsStop

ShutdownNext ==
    \/ Start
    \/ ShutdownLoops
    \/ RouterRoute
    \/ NefitClose

ShutdownSpec ==
    /\ Init
    /\ [][ShutdownNext]_vars
    /\ WF_vars(connectWithRetry(ShutdownResults))
    /\ WF_vars(pollStatus)
    /\ WF_vars(handleCommandsSubscribe \/ handleCommandsStop)
    /\ WF_vars(RouterRoute)

-----------------------------------------------------------------------------
(* main: run, from config.Load to the deferred closes. *)

\* var cfg Config, before the environment is read.
ZeroConfig == Config(0, 0, 0)

\* cfg, err := config.Load(): the environment is read and validated; on an
\* error Load returns nil and run returns the error before anything starts.
MainLoad ==
    /\ mainPc = "load"
    /\ \E c \in CandidateConfigs :
          /\ loaded' = <<[env |-> c,
                          cfg |-> IF Validate(c) THEN <<c>> ELSE <<>>,
                          err |-> ~Validate(c)]>>
          /\ mainPc' = IF Validate(c) THEN "new" ELSE "failed"
    /\ UNCHANGED <<busVars, eqVars, connVars, cmdVars, pollPc, pollLog, pushLog, shutdownLog, webVars>>

\* events.New, nefit.New(cfg, logger, bus), homekit.New, web.New
MainNew ==
    /\ mainPc = "new"
    /\ cfg' = loaded[1].cfg[1]
    /\ mainPc' = "start"
    /\ UNCHANGED <<busVars, eqVars, cmdVars, pollPc, pollLog, pushLog, shutdownLog, webVars, loaded,
                   backoff, reconnectNum, connPc, ctxDone, statusLog, waits,
                   attemptLog, link, polling, closePc, closeAt>>

\* web.Server.Start: the goroutine of handleStateUpdates is started and
\* Connected is published.
ServerStart ==
    /\ updPc' = "idle"
    /\ webStatus' = Append(webStatus,
                           ConnectionStatusEvent(0, ClientWeb,
                                                 ConnectionStatusConnected, "", 0))

\* nefitClient.Start(), homekitServer.Start(), webServer.Start()
MainStart ==
    /\ mainPc = "start"
    /\ connPc = "not_started" /\ cmdPc = "not_started"
    /\ connPc' = "entry"
    /\ cmdPc' = "subscribe"
    /\ startedAt' = <<Len(handed)>>
    /\ ServerStart
    /\ mainPc' = "wait_signal"
    /\ UNCHANGED <<webMu, currentState, sseClients, clientChan, ssePc, webPanics, updEvent, nUpdates, webClosePc, webCtx>>
    /\ UNCHANGED <<busVars, eqVars, pollPc, pollLog, pushLog, shutdownLog, loaded, cfg,
                   backoff, reconnectNum, ctxDone, statusLog, waits,
                   attemptLog, link, polling, closePc, closeAt,
                   cmdCur, cmdSeen, handledLog, puts, fetches>>

\* sig := <-sigChan
MainSignal ==
    /\ mainPc = "wait_signal"
    /\ mainPc' = "select"
    /\ UNCHANGED <<busVars, eqVars, connVars, cmdVars, pollPc, pollLog, pushLog, shutdownLog, webVars,
                   loaded>>

\* run returning, had the deferred calls run in the order of the defer
\* statements: the bus first.
MainReturnInDeferOrder == mainPc' = "close_bus"

\* run returns through "close_web" first: the deferred calls run in the
\* reverse of the order the defer statements were executed in.
MainReturn == mainPc' = "close_web"

\* The select on done, which a goroutine closes at once, and on the context
\* of ten seconds; either way "shutdown complete" or the timeout is logged
\* and run returns nil, which runs the deferred closes.
MainSelect ==
    /\ mainPc = "select"
    /\ MainReturn
    /\ UNCHANGED <<busVars, eqVars, connVars, cmdVars, pollPc, pollLog, pushLog, shutdownLog, webVars,
                   loaded>>

\* What a deferred close did: the component, its step, and whether the bus
\* still had every client open.
ShutdownStep(component, what) ==
    [component |-> component, what |-> what, busOpen |-> clientClosed = {}]

\* deferred: webServer.Close(), no SSE request being served:
\* Disconnected is published, the channels of the registered SSE clients are
\* closed and the map is replaced under the lock, the context is cancelled
\* and the HTTP server is shut down.
MainCloseWeb ==
    /\ mainPc = "close_web"
    /\ webMu = {}
    /\ webStatus' = Append(webStatus,
                           ConnectionStatusEvent(0, ClientWeb,
                                                 ConnectionStatusDisconnected, "", 0))
    /\ clientChan' = [r \in SSERequests |->
                         IF r \in sseClients
                         THEN [clientChan[r] EXCEPT !.closed = TRUE]
                         ELSE clientChan[r]]
    /\ sseClients' = {}
    /\ webCtx' = TRUE
    /\ webClosePc' = "done"
    /\ shutdownLog' = shutdownLog \o <<ShutdownStep(ClientWeb, "disconnected"),
                                       ShutdownStep(ClientWeb, "closed")>>
    /\ mainPc' = "close_homekit"
    /\ UNCHANGED <<webMu, currentState, ssePc, webPanics, updPc,
                   updEvent, nUpdates>>
    /\ UNCHANGED <<busVars, eqVars, connVars, cmdVars, pollPc, pollLog, pushLog,
                   loaded>>

\* deferred: homekitServer.Close(): Disconnected is published and the
\* server's context is cancelled.
MainCloseHomekit ==
    /\ mainPc = "close_homekit"
    /\ shutdownLog' = shutdownLog \o <<ShutdownStep(ClientHomeKit, "disconnected"),
                                       ShutdownStep(ClientHomeKit, "closed")>>
    /\ mainPc' = "close_nefit"
    /\ UNCHANGED <<busVars, eqVars, connVars, cmdVars, pollPc, pollLog, pushLog,
                   webVars, loaded>>

\* deferred: nefitClient.Close() is called
MainCloseNefitCall ==
    /\ mainPc = "close_nefit"
    /\ closePc = "idle"
    /\ closePc' = "publish"
    /\ closeAt' = <<[pc |-> connPc, attempts |-> Len(attemptLog)]>>
    /\ mainPc' = "closing_nefit"
    /\ UNCHANGED <<busVars, eqVars, cmdVars, pollPc, pollLog, pushLog, shutdownLog, webVars, loaded,
                   cfg, backoff, reconnectNum, connPc, ctxDone, statusLog,
                   waits, attemptLog, link, polling>>

\* The device link stops answering while its Close is being called.
NefitCloseLinkHangs ==
    /\ closePc = "close_link"
    /\ link # "hung"
    /\ link' = "hung"
    /\ UNCHANGED <<busVars, eqVars, otherVars, cmdVars, cfg, backoff,
                   reconnectNum, connPc, closePc,
                   ctxDone, statusLog, waits, attemptLog, polling, closeAt>>

\* nefitClient.Close() has returned
MainCloseNefitReturn ==
    /\ mainPc = "closing_nefit"
    /\ closePc = "done"
    /\ shutdownLog' = Append(shutdownLog, ShutdownStep(ClientNefit, "closed"))
    /\ mainPc' = "close_bus"
    /\ UNCHANGED <<busVars, eqVars, connVars, cmdVars, pollPc, pollLog, pushLog,
                   webVars, loaded>>

\* deferred: bus.Close(), which closes and deletes every client under
\* Bus.mu; then cancel() and logger.Sync(), and run has returned.
MainCloseBus ==
    /\ mainPc = "close_bus"
    /\ mu = "none"
    /\ nClose' = nClose + 1
    /\ clientClosed' = clientClosed \cup clients
    /\ closeCount' = [c \in ClientNames |->
                         IF c \in clients THEN closeCount[c] + 1 ELSE closeCount[c]]
    /\ cq' = [c \in ClientNames |-> IF c \in clients THEN <<>> ELSE cq[c]]
    /\ topics' = [t \in EventTypes |->
                     SelectSeq(topics[t], LAMBDA c : c \notin clients)]
    /\ subGen' = [c \in ClientNames |->
                     IF c \in clients THEN [t \in EventTypes |-> 0] ELSE subGen[c]]
    /\ clients' = {}
    /\ closeReturned' = TRUE
    /\ shutdownLog' = Append(shutdownLog, ShutdownStep("bus", "closed"))
    /\ mainPc' = "exited"
    /\ UNCHANGED <<mu, lastState, stateMu, busQueue, routing, routingActive,
                   callVars, crashed, calls, handed, subVars>>
    /\ UNCHANGED <<eqVars, connVars, cmdVars, pollPc, pollLog, pushLog, webVars,
                   loaded>>

run ==
    \/ MainLoad
    \/ MainNew
    \/ MainStart
    \/ MainSignal
    \/ MainSelect
    \/ MainCloseWeb
    \/ MainCloseHomekit
    \/ MainCloseNefitCall
    \/ NefitClosePublishDisconnected
    \/ NefitCloseCancel
    \/ NefitCloseLink
    \/ MainCloseNefitReturn
    \/ MainCloseBus

MainInit ==
    /\ BusInit /\ EqIdle
    /\ ClientNew(ZeroConfig)
    /\ ServerNew
    /\ mainPc = "load"
    /\ loaded = <<>>
    /\ shutdownLog = <<>>

MainLoops ==
    \/ connectWithRetry(ShutdownResults)
    \/ handleCommandsSubscribe
    \/ handleCommandsStop

MainNext ==
    \/ run
    \/ MainLoops
    \/ NefitCloseLinkHangs

\* run and the client's goroutines are all scheduled.
MainSpec ==
    /\ MainInit
    /\ [][MainNext]_vars
    /\ WF_vars(run)
    /\ WF_vars(MainLoops)

-----------------------------------------------------------------------------
(* The started client: the retry loop and the command loop side by side. *)

ManagerCommands == {CmdTemperature}

ManagerNext ==
    \/ Start
    \/ connectWithRetryEntry
    \/ connectWithRetryCheckCtx
    \/ connectWithRetryPublishConnecting
    \/ connectWithRetryConnect(ShutdownResults)
    \/ connectWithRetryPublishConnected
    \/ connectWithRetryReset
    \/ connectWithRetryPublishReconnecting
    \/ connectWithRetryBackoffElapsed
    \/ handleCommandsSubscribe
    \/ handleCommandsTake
    \/ handleCommand
    \/ \E g \in CommandPublishers, c \in CommandPubClients, e \in ManagerCommands :
           CallPublishCommand(g, c, e)
    \/ \E g \in CommandPublishers : PublishCommandNew(g)
    \/ \E g \in CommandPublishers : PublishCommandPublish(g)
    \/ Routing

ManagerSpec == ConnectInit /\ [][ManagerNext]_vars

-----------------------------------------------------------------------------
(* nefit.Client: handleNefitEvent, the callback the device link calls with  *)
(* a push notification.  The data of a notification is a map; a key that is  *)
(* absent, or whose value has another type than the one asserted, is not in  *)
(* the map's domain here.                                                     *)

Field(data, key, default) == IF key \in DOMAIN data THEN data[key] ELSE default

\* handleNefitEvent: var s types.Status and the four type assertions.
StatusOfNotification(data) ==
    Status(Field(data, "in_house_temp", 0), Field(data, "temp_setpoint", 0),
           Field(data, "boiler_indicator", ""), Field(data, "user_mode", ""), FALSE)

\* The notifications drawn: a complete one, two that carry one field only
\* (a temperature; the mode "off"), and one with a mode the device does not
\* have.
PushFull ==
    [in_house_temp |-> 4300, temp_setpoint |-> 4400, boiler_indicator |-> "CH",
     user_mode |-> "manual"]
PushTemperatureOnly == [in_house_temp |-> 4200]
PushOffOnly == [user_mode |-> "off"]
PushUnknownMode == [in_house_temp |-> 4300, user_mode |-> "holiday"]
PushInputs == {PushFull, PushTemperatureOnly, PushOffOnly, PushUnknownMode}
PushURIs == {"URIStatus", "URIOutdoorTemp"}

\* func (c *Client) handleNefitEvent(uri string, data interface{}), with the
\* call of publishStateUpdate and, in it, of Bus.PublishStateUpdate.  pushLog
\* keeps the notification, the event passed to the bus (if any) and the
\* bus's lastState before the call.
handleNefitEvent(uri, data) ==
    /\ ~crashed
    /\ stateMu = "none"
    /\ Len(pushLog) < MaxPush
    /\ LET e == publishStateUpdateEvent(StatusOfNotification(data)) IN
       /\ pushLog' = Append(pushLog,
                            [uri |-> uri, data |-> data, before |-> lastState,
                             event |-> IF uri = "URIStatus" THEN <<e>> ELSE <<>>])
       /\ IF uri # "URIStatus" \/ IsDuplicate(e)
          THEN UNCHANGED <<lastState, busQueue, handed>>
          ELSE /\ RouterAccepts
               /\ busQueue' = Append(busQueue, Item(TState, e, ClientNefit))
               /\ handed' = Append(handed, Item(TState, e, ClientNefit))
               /\ lastState' = <<e>>
    /\ UNCHANGED <<clients, mu, stateMu, libVars, callVars, crashed, calls,
                   closeVars, subVars, eqVars, connVars, cmdVars, pollPc, pollLog, shutdownLog, webVars,
                   mainPc, loaded>>

\* The client's handlers called one after the other, as tests call them.
PushNext ==
    \/ DirectNext
    \/ \E uri \in PushURIs, data \in PushInputs : handleNefitEvent(uri, data)

PushSpec == Init /\ [][PushNext]_vars

-----------------------------------------------------------------------------
(* StateUpdateEvent.Equals as a function: two events are drawn, Equals is   *)
(* called on them once.                                                      *)

Readings == 0..MaxUnits
Extremes == {0, MaxUnits}

\* The receiver: every reading at one end of the range or the other.
EqReceivers ==
    { StateUpdateEvent(1, "nefit", cur, tgt, TRUE, "heat", pres, TRUE, hwt) :
        cur \in Extremes, tgt \in Extremes, pres \in Extremes, hwt \in Extremes }

\* The argument: every reading of the range, every categorical value, another
\* Timestamp and Source or the same.
EqArguments ==
    { StateUpdateEvent(ts, src, x[1], x[2], cat[1], cat[2], x[3], cat[3], x[4]) :
        ts \in {1, 2}, src \in {"nefit", "web"},
        x \in Readings \X Readings \X Readings \X Readings,
        cat \in BOOLEAN \X {"heat", "off"} \X BOOLEAN }

EqInit ==
    /\ BusInit
    /\ NefitIdle
    /\ evA \in EqReceivers
    /\ evB \in EqArguments
    /\ eqCalled = FALSE
    /\ eqResult = FALSE

\* eqResult := evA.Equals(evB)
CallEquals ==
    /\ ~eqCalled
    /\ eqCalled' = TRUE
    /\ eqResult' = Equals(evA, evB)
    /\ UNCHANGED <<busVars, evA, evB, nefitVars>>

EqNext == CallEquals

EqSpec == EqInit /\ [][EqNext]_vars

-----------------------------------------------------------------------------
(* What the specification calls equal snapshots, stated on its own: the     *)
(* three categorical fields are equal and each of the four readings differs *)
(* by strictly less than the tolerance, in either direction.                *)

Within(x, y) == x - y < Epsilon /\ y - x < Epsilon

SameReadings(a, b) ==
    /\ a.HeatingActive = b.HeatingActive
    /\ a.Mode = b.Mode
    /\ a.HotWaterActive = b.HotWaterActive
    /\ Within(a.CurrentTemperature, b.CurrentTemperature)
    /\ Within(a.TargetTemperature, b.TargetTemperature)
    /\ Within(a.Pressure, b.Pressure)
    /\ Within(a.HotWaterTemperature, b.HotWaterTemperature)

\* C3: a.Equals(b) is true exactly when HeatingActive, Mode and
\* HotWaterActive are equal and each of CurrentTemperature,
\* TargetTemperature, Pressure and HotWaterTemperature differs by strictly
\* less than 0.01; the result is the same whatever the Timestamp and Source
\* of either event.
C3_EqualsIsApproximateEquality ==
    eqCalled =>
        /\ eqResult = SameReadings(evA, evB)
        /\ \A ts \in {1, 2, 3}, src \in {"", "nefit", "web", "homekit"} :
              /\ Equals([evA EXCEPT !.Timestamp = ts, !.Source = src], evB) = eqResult
              /\ Equals(evA, [evB EXCEPT !.Timestamp = ts, !.Source = src]) = eqResult

\* Equals was called on two events of different Source and Timestamp whose
\* current temperatures differ by less than the tolerance, and said true.
C3_Witness ==
    /\ eqCalled /\ eqResult
    /\ evA.Source # evB.Source /\ evA.Timestamp # evB.Timestamp
    /\ evA.CurrentTemperature # evB.CurrentTemperature

-----------------------------------------------------------------------------
(* Reading the bookkeeping.  A publish call is known by its number, which   *)
(* is the Timestamp of its event.                                            *)

Count(s, ts) == Cardinality({ i \in 1..Len(s) : s[i].ev.Timestamp = ts })

\* The event is the same as the last published one, as the specification
\* defines it.
SameAsLast(e) == lastState # <<>> /\ SameReadings(e, lastState[1])

\* The subscription n is the one its client holds now for its event type.
Current(n) ==
    /\ n \in 1..nSubs
    /\ subGen[subInfo[n].client][subInfo[n].type] = n

\* How many copies of call ts the router still holds for client c.
HeldByRouter(c, ts) ==
    Cardinality({ k \in 1..Len(busQueue) :
                    /\ busQueue[k].ev.Timestamp = ts
                    /\ (k > 1 \/ ~routingActive \/ c \in Range(routing)) })

\* How many copies of call ts exist for subscription n: on their way, or received.
Copies(n, ts) ==
    HeldByRouter(subInfo[n].client, ts) + Count(cq[subInfo[n].client], ts)
        + Count(received[n], ts)

\* Every event handed to the bus while subscription n existed, of n's type,
\* exists exactly once for n as long as n is subscribed; and no subscription
\* ever holds an event twice.
ExactlyOnce ==
    /\ \A n \in 1..nSubs : \A i \in 1..Len(handed) :
          (Current(n) /\ i > subInfo[n].handedBefore /\ handed[i].type = subInfo[n].type)
              => Copies(n, handed[i].ev.Timestamp) = 1
    /\ \A n \in 1..nSubs : \A i \in 1..Len(received[n]) :
          Count(received[n], received[n][i].ev.Timestamp) = 1

\* No call is in progress and nothing is on its way to a subscriber.
Quiescent ==
    /\ \A g \in Goroutines : pc[g] = "idle"
    /\ busQueue = <<>>
    /\ \A c \in ClientNames : cq[c] = <<>>

\* The goroutine g leaves the statement at.
Leaves(g, at) == pc[g] = at /\ pc'[g] # at

\* C1: PublishStateUpdate(client, e) with e Equals the last published state
\* delivers nothing and leaves lastState unchanged, whatever e's Source and
\* Timestamp and whatever client is passed; so no state update handed to the
\* bus equals the one handed to it before.
C1_DuplicateIsSkipped ==
    [][ /\ \A g \in Goroutines :
              (Leaves(g, "psu_lock") /\ SameAsLast(op[g].ev))
                  => /\ pc'[g] = "idle"
                     /\ UNCHANGED <<lastState, busQueue, handed, cq, received>>
        /\ LET h == OfType(handed', TState) IN
               \A i \in 2..Len(h) : ~SameReadings(h[i].ev, h[i - 1].ev)
      ]_vars

\* A call whose event came from another source with a slightly different
\* reading than the last published state has returned and was not handed on.
C1_Witness ==
    /\ lastState # <<>>
    /\ \E i \in 1..Len(calls) :
          /\ \A g \in Goroutines : op[g].ev.Timestamp # calls[i].ev.Timestamp
          /\ Count(handed, calls[i].ev.Timestamp) = 0
          /\ calls[i].ev.Source # lastState[1].Source
          /\ calls[i].ev.CurrentTemperature # lastState[1].CurrentTemperature
          /\ calls[i].ev.Timestamp > lastState[1].Timestamp

\* C2: PublishStateUpdate(client, e) with e not Equal to the last published
\* state (a reading differs by 0.01 or more, or a categorical field differs)
\* hands e to the bus once, makes e the new lastState, and e exists exactly
\* once for every current subscriber of StateUpdateEvent.
C2_ChangeIsDeliveredOnce ==
    [][ /\ \A g \in Goroutines :
              /\ (Leaves(g, "psu_lock") /\ ~SameAsLast(op[g].ev))
                     => pc'[g] = "psu_publish"
              /\ Leaves(g, "psu_publish")
                     => /\ handed' = Append(handed, Item(TState, op[g].ev, op[g].client))
                        /\ lastState' = <<op[g].ev>>
                        /\ pc'[g] = "idle"
        /\ ExactlyOnce'
      ]_vars

\* Two subscribers have both received, once each, an event that differs from
\* the one published before it by exactly the tolerance, and it is lastState.
C2_Witness ==
    /\ Len(handed) >= 2 /\ nSubs = 2 /\ Current(1) /\ Current(2)
    /\ LET e == handed[Len(handed)].ev
           d == e.CurrentTemperature - handed[Len(handed) - 1].ev.CurrentTemperature
       IN  /\ (d = Epsilon \/ d = -Epsilon)
           /\ lastState = <<e>>
           /\ Count(received[1], e.Timestamp) = 1
           /\ Count(received[2], e.Timestamp) = 1

\* C4: when the callers of PublishStateUpdate, running concurrently, pass
\* snapshots that differ pairwise by the tolerance or more, a subscriber that
\* subscribed before the first of them receives exactly one event per call:
\* none is lost, none is duplicated, whatever the interleaving.
C4_ConcurrentPublishersLoseNothing ==
    \A n \in 1..nSubs :
        (/\ Current(n) /\ subInfo[n].type = TState /\ subInfo[n].handedBefore = 0
         /\ \A i, j \in 1..Len(calls) :
               i # j => ~SameReadings(calls[i].ev, calls[j].ev))
            => /\ \A i \in 1..Len(received[n]) :
                     /\ Count(calls, received[n][i].ev.Timestamp) = 1
                     /\ Count(received[n], received[n][i].ev.Timestamp) = 1
               /\ Quiescent => \A i \in 1..Len(calls) :
                                   Count(received[n], calls[i].ev.Timestamp) = 1

\* Two calls with snapshots that differ by the tolerance overlapped (the
\* later call was published first), and a subscriber from before them has
\* received both.
C4_Witness ==
    /\ Quiescent /\ Len(calls) = 2 /\ Current(1) /\ subInfo[1].handedBefore = 0
    /\ ~SameReadings(calls[1].ev, calls[2].ev)
    /\ Len(received[1]) = 2
    /\ received[1][1].ev.Timestamp = 2 /\ received[1][2].ev.Timestamp = 1

\* C6: on a bus just created the first PublishStateUpdate goes on to publish
\* whatever its values, the all-zero snapshot included; once lastState is
\* set it is never nil again, and it is set as soon as a call has returned.
C6_FirstUpdateIsPublished ==
    [][ /\ \A g \in Goroutines :
              (Leaves(g, "psu_lock") /\ lastState = <<>>) => pc'[g] = "psu_publish"
        /\ lastState # <<>> => lastState' # <<>>
        /\ lastState' = <<>> =>
              /\ handed' = <<>>
              /\ \A i \in 1..Len(calls') :
                    \E g \in Goroutines :
                        pc'[g] # "idle" /\ op'[g].ev.Timestamp = calls'[i].ev.Timestamp
      ]_vars

\* The first call passed the all-zero snapshot; it was handed to the bus,
\* received by a subscriber, and became lastState.
C6_Witness ==
    /\ Len(handed) = 1 /\ Quiescent
    /\ handed[1].ev = Stamp(ZeroStateUpdateEvent, 1)
    /\ lastState = <<handed[1].ev>>
    /\ nSubs >= 1 /\ Count(received[1], 1) = 1

\* The place of call ts among the events handed to the bus.
HandedIndex(ts) == CHOOSE i \in 1..Len(handed) : handed[i].ev.Timestamp = ts

BusCanMove ==
    \/ ENABLED RouterRoute
    \/ ENABLED RouterDeliver
    \/ \E c \in ClientNames : ENABLED Discard(c)

\* C10: a publisher never waits for a subscriber to read: whenever
\* PublishStateUpdate is inside Publisher.Publish, holding stateMu, either the
\* call can go on or the bus can move without any subscriber reading.
C10_PublishNeverWaitsForAReader ==
    \A g \in Goroutines :
        (pc[g] = "psu_publish" /\ stateMu = g)
            => (ENABLED PublishStateUpdatePublish(g) \/ BusCanMove)

\* The goroutine g is inside PublishCommand or PublishConnectionStatus.
InPlainPublish(g) ==
    pc[g] \in {"cmd_new", "cmd_publish", "status_new", "status_publish"}

\* C5: PublishCommand and PublishConnectionStatus hand every event to the
\* bus, also one identical to the event before it, and the event exists
\* exactly once for every current subscriber of its type; no step of either
\* function depends on lastState or changes it.
C5_CommandsAndStatusesAreNeverSkipped ==
    [][ /\ \A g \in Goroutines :
              /\ (InPlainPublish(g) /\ pc'[g] # pc[g]) => lastState' = lastState
              /\ Leaves(g, "cmd_new") => pc'[g] = "cmd_publish"
              /\ Leaves(g, "status_new") => pc'[g] = "status_publish"
              /\ (Leaves(g, "cmd_publish") \/ Leaves(g, "status_publish"))
                     => /\ handed' = Append(handed, Item(op[g].kind, op[g].ev, op[g].client))
                        /\ pc'[g] = "idle"
        /\ ExactlyOnce'
      ]_vars

\* While lastState was set, the same command was published twice in a row
\* and its subscriber has received both.
C5_Witness ==
    /\ lastState # <<>> /\ nSubs >= 1
    /\ \E n \in 1..nSubs :
          /\ subInfo[n].type = TCommand /\ Len(received[n]) = 2
          /\ received[n][1].ev.Timestamp # received[n][2].ev.Timestamp
          /\ Stamp(received[n][1].ev, 0) = Stamp(received[n][2].ev, 0)

\* C7 as stated: a publish call made after Bus.Close has returned ends with
\* an error for its caller, and so not in a panic.
C7_PublishAfterCloseReturnsAnError ==
    \A g \in Goroutines : op[g].afterClose => pc[g] # "panicked"

\* C8 as stated: Bus.Close may run while publish calls are in flight; no
\* call that was entered before a Close returned ends in a panic.
C8_CloseDuringPublishNeverCrashes ==
    \A g \in Goroutines : pc[g] = "panicked" => op[g].afterClose

\* What holds of Bus.Close: Client.Close is called on each client at most
\* once, exactly once when a Close has returned, the map is empty from then
\* on, and a later Close changes nothing of the bus.
CloseIsIdempotent ==
    /\ \A c \in ClientNames : closeCount[c] <= 1
    /\ closeReturned => (clients = {} /\ \A c \in ClientNames : closeCount[c] = 1)


-----------------------------------------------------------------------------
(* The reconnect backoff. *)

RECURSIVE Doubled(_, _)
Doubled(d, n) == IF n = 0 THEN d ELSE Doubled(d + d, n - 1)

Smaller(a, b) == IF a <= b THEN a ELSE b

\* The wait the documentation gives for the n-th consecutive failure.
DocumentedWait(n) ==
    Smaller(Doubled(cfg.XMPPReconnectBackoff, n - 1), cfg.XMPPMaxReconnectWait)

-----------------------------------------------------------------------------
(* The retry counter as the status events report it. *)

\* The status event published first after the i-th Connect returned.
NextStatusAfter(i) == statusLog[attemptLog[i].published + 1]

\* C12: after failed attempts followed by a successful one, the next status
\* event the client publishes reports Reconnects = 0.
C12_NextStatusAfterSuccessReportsZero ==
    \A i \in 2..Len(attemptLog) :
        /\ attemptLog[i].result = "ok"
        /\ Len(statusLog) > attemptLog[i].published
        => NextStatusAfter(i).Reconnects = 0


-----------------------------------------------------------------------------
(* Persistent failure. *)

Reconnectings ==
    SelectSeq(statusLog, LAMBDA e : e.Status = ConnectionStatusReconnecting)

Failures == SelectSeq(attemptLog, LAMBDA a : a.result # "ok")

\* The loop is alive, the k-th Reconnecting event carries Reconnects = k and
\* the error of the k-th failure, and no wait is shorter than the one before.
RetryLogConsistent ==
    /\ connPc # "returned"
    /\ ~crashed
    /\ Len(Reconnectings) <= Len(Failures)
    /\ \A k \in 1..Len(Reconnectings) :
          /\ Reconnectings[k].Reconnects = k
          /\ Reconnectings[k].Error = Failures[k].result
    /\ \A n \in 1..(Len(waits) - 1) : waits[n] <= waits[n + 1]

-----------------------------------------------------------------------------
(* Loss of the link. *)

\* C14: when the link is lost after Connected was published and no shutdown
\* was requested, the connection loop is able to leave its wait, on the way
\* to publishing Reconnecting and calling Connect again.
C14_LinkLossIsNoticed ==
    /\ connPc = "connected"
    /\ link = "lost"
    /\ closePc = "idle"
    /\ ~ctxDone
    => ENABLED connectWithRetry(ConnectResults)


-----------------------------------------------------------------------------
(* Shutdown during a backoff. *)

Disconnecteds ==
    SelectSeq(statusLog, LAMBDA e : e.Status = ConnectionStatusDisconnected)

\* C15: when Close is invoked while the loop waits in a backoff, no further
\* Connect call is made, and the shutdown publishes exactly one Disconnected
\* event.
C15_CloseDuringBackoffStopsRetrying ==
    /\ closeAt # <<>>
    /\ closeAt[1].pc = "backoff"
    => /\ Len(attemptLog) = closeAt[1].attempts
       /\ Len(Disconnecteds) <= 1
       /\ closePc = "done" => Len(Disconnecteds) = 1


-----------------------------------------------------------------------------
(* The command loop. *)

\* The commands of other sources taken from the subscription, in order.
TakenFromOthers == SelectSeq(cmdSeen, LAMBDA e : e.Source # "nefit")

\* The commands handleCommand was called with by the loop, in order.
PassedByLoop ==
    LET loopCalls == SelectSeq(handledLog, LAMBDA h : h.via = "loop") IN
    [i \in 1..Len(loopCalls) |-> loopCalls[i].cmd]

\* The command a request over the device link was made for.
CommandOf(r) == handledLog[r.id].cmd

\* C16: a command with Source "nefit" taken from the subscription leads to no
\* Put and no status fetch, and every command of another Source taken from
\* it is passed to handleCommand.
C16_OwnCommandsAreSkipped ==
    /\ PassedByLoop = TakenFromOthers
    /\ \A i \in 1..Len(puts) :
          handledLog[puts[i].id].via = "loop" => CommandOf(puts[i]).Source # "nefit"
    /\ \A i \in 1..Len(fetches) :
          handledLog[fetches[i].id].via = "loop" => CommandOf(fetches[i]).Source # "nefit"

\* The loop took a command of its own, then one of another source, and sent
\* a Put for the latter.
C16_Witness ==
    /\ Len(cmdSeen) >= 2
    /\ cmdSeen[1].Source = "nefit"
    /\ cmdSeen[2].Source # "nefit"
    /\ Len(puts) = 1
    /\ CommandOf(puts[1]) = cmdSeen[2]


\* C17: handleCommand called with a well-formed command whose Source is
\* "nefit" returns without processing it: no Put is sent and no status is
\* fetched for it.
C17_HandleCommandIgnoresNefitSource ==
    /\ \A i \in 1..Len(puts) : CommandOf(puts[i]).Source # "nefit"
    /\ \A i \in 1..Len(fetches) : CommandOf(fetches[i]).Source # "nefit"


-----------------------------------------------------------------------------
(* Commands published while the client runs. *)

\* The consumers' commands handed to the bus after Start returned, in order.
PublishedAfterStart ==
    LET later == SubSeq(handed, startedAt[1] + 1, Len(handed)) IN
    LET cmds == SelectSeq(later, LAMBDA h : h.type = TCommand /\ h.ev.Source # "nefit") IN
    [i \in 1..Len(cmds) |-> cmds[i].ev]

EventsOf(s) == [i \in 1..Len(s) |-> s[i].ev]

\* Of a sequence of events, those published after Start returned.
AfterStart(s) ==
    SelectSeq(s, LAMBDA e : \E i \in 1..Len(PublishedAfterStart) :
                                PublishedAfterStart[i] = e)

\* C18: every command a consumer publishes after Start returned is handled
\* exactly once, in the order of publication: at any moment before shutdown
\* the commands handled so far, followed by those still queued for the
\* client, are the commands published so far.
C18_CommandsAfterStartAreHandledOnceInOrder ==
    /\ startedAt # <<>>
    /\ closePc = "idle"
    => AfterStart(PassedByLoop)
          \o AfterStart(EventsOf(OfType(cq[ClientNefit], TCommand)))
          \o AfterStart(EventsOf(OfType(busQueue, TCommand)))
       = PublishedAfterStart


-----------------------------------------------------------------------------
(* What follows a Put. *)

PutsOf(id) == SelectSeq(puts, LAMBDA p : p.id = id)
FetchesOf(id) == SelectSeq(fetches, LAMBDA f : f.id = id)

\* The call of handleCommand with this number has returned.
Returned(id) == id <= Len(handledLog) /\ cmdCur.id # id

\* C19: for a command of any kind, a Put that succeeded is followed by one
\* status fetch before the loop takes the next command.
C19_SuccessfulPutIsFollowedByOneFetch ==
    \A i \in 1..Len(puts) :
        puts[i].ok /\ Returned(puts[i].id) => Len(FetchesOf(puts[i].id)) = 1

\* C20: when the Put of a command fails, no second Put is sent for that
\* command, no status is fetched and no state event is published for it,
\* and handleCommand returns at once, the loop going on with the commands
\* that follow.
C20_FailedPutIsNotRetried ==
    /\ \A id \in 1..Len(handledLog) : Len(PutsOf(id)) <= 1
    /\ \A i \in 1..Len(puts) :
          ~puts[i].ok => /\ FetchesOf(puts[i].id) = <<>>
                         /\ Returned(puts[i].id)
    /\ Len(OfType(handed, TState)) <= Len(SelectSeq(fetches, LAMBDA f : f.ok))
    /\ ~crashed
    /\ cmdCur = NoCommand => cmdPc \in {"not_started", "subscribe", "waiting", "stopped"}

\* The Put of a set-temperature command failed, and the loop has since
\* taken the next command and sent its Put.
C20_Witness ==
    /\ Len(puts) = 2
    /\ ~puts[1].ok
    /\ CommandOf(puts[1]).CommandType = CommandTypeSetTemperature
    /\ puts[2].id > puts[1].id
    /\ puts[2].ok
    /\ fetches = <<>>


-----------------------------------------------------------------------------
(* Commands that cannot be applied. *)

\* The command lacks the value its kind needs.
MissingPayload(cmd) ==
    \/ cmd.CommandType = CommandTypeSetTemperature /\ cmd.TargetTemperature = <<>>
    \/ cmd.CommandType = CommandTypeSetMode /\ cmd.Mode = <<>>
    \/ cmd.CommandType = CommandTypeSetHotWater /\ cmd.HotWaterEnabled = <<>>

\* C21: while handleCommand handles a command that lacks the value of its
\* kind, no Put is sent, no status is fetched and nothing is published on the
\* bus, whatever other values the command carries; its first step returns.
C21_MissingPayloadIsDropped ==
    [][cmdCur # NoCommand /\ MissingPayload(cmdCur.cmd)
       => /\ puts' = puts
          /\ fetches' = fetches
          /\ handed' = handed
          /\ cmdPc' # cmdPc => cmdCur' = NoCommand]_vars

\* Calls for a set-temperature command that carries only a mode and for a
\* set-hot-water command that carries only a temperature have returned.
C21_Witness ==
    /\ Len(handledLog) = 2
    /\ cmdCur = NoCommand
    /\ handledLog[1].cmd = CmdTemperatureMissing
    /\ handledLog[2].cmd = CmdHotWaterMissing
    /\ puts = <<>>


\* The user modes of the device, and the modes a set-mode command may ask for.
KnownUserModes == {"manual", "clock", "off"}
KnownCommandModes == {"heat", "off"}
KnownCommandTypes ==
    {CommandTypeSetTemperature, CommandTypeSetMode, CommandTypeSetHotWater}

\* C22: unknown values are dropped: a status notification whose user mode is
\* not a known one leads to no state event, a set-mode command whose mode is
\* neither "heat" nor "off" to no Put, a command of unknown type to no Put.
C22_UnknownValuesAreDropped ==
    /\ \A i \in 1..Len(pushLog) :
          /\ "user_mode" \in DOMAIN pushLog[i].data
          /\ pushLog[i].data.user_mode \notin KnownUserModes
          => pushLog[i].event = <<>>
    /\ \A i \in 1..Len(puts) :
          /\ CommandOf(puts[i]).CommandType \in KnownCommandTypes
          /\ CommandOf(puts[i]).CommandType = CommandTypeSetMode
             => CommandOf(puts[i]).Mode[1] \in KnownCommandModes


-----------------------------------------------------------------------------
(* Push notifications. *)

\* The field of the published event is the notified value when the
\* notification has the key, and the last known value otherwise.
Merged(entry, key, field, notified) ==
    IF key \in DOMAIN entry.data
    THEN entry.event[1][field] = notified
    ELSE entry.before # <<>> => entry.event[1][field] = entry.before[1][field]

\* C23: the state event published for a status notification has the notified
\* values in the fields the notification carries and the last known values
\* in all others.
C23_NotificationIsMergedIntoLastState ==
    \A i \in 1..Len(pushLog) :
        LET n == pushLog[i] IN
        n.event # <<>> =>
            /\ Merged(n, "in_house_temp", "CurrentTemperature",
                      Field(n.data, "in_house_temp", 0))
            /\ Merged(n, "temp_setpoint", "TargetTemperature",
                      Field(n.data, "temp_setpoint", 0))
            /\ Merged(n, "user_mode", "Mode",
                      IF Field(n.data, "user_mode", "") = "off" THEN "off" ELSE "heat")
            /\ Merged(n, "boiler_indicator", "HeatingActive",
                      Field(n.data, "boiler_indicator", "") \in {"CH", "HW"})


-----------------------------------------------------------------------------
(* Shutdown of the running client. *)

LoopsReturned ==
    /\ connPc = "returned"
    /\ pollPc \in {"not_started", "returned"}
    /\ cmdPc = "stopped"

\* C25: once Close has cancelled the context, the retry loop, the keepalive
\* loop and the command loop each return in the end, wherever they were
\* waiting, and Close goes on to close the device link.
C25_LoopsReturnAfterCancel ==
    /\ ctxDone ~> LoopsReturned
    /\ [](ctxDone => closePc \in {"close_link", "done"})

\* The context was cancelled while the retry loop was blocked after
\* Connected, the keepalive loop was running and the command loop was
\* waiting; all three have returned.
C25_Witness ==
    /\ closeAt # <<>>
    /\ closeAt[1].pc = "connected"
    /\ Len(PollFetches) = 1
    /\ connPc = "returned"
    /\ pollPc = "returned"
    /\ cmdPc = "stopped"
    /\ closePc = "done"


-----------------------------------------------------------------------------
(* The order of status events and Connect calls in the retry loop. *)

\* The status events of the retry loop: all but those of Close.
LoopLog ==
    SelectSeq(statusLog, LAMBDA e : e.Status # ConnectionStatusDisconnected)

\* How many of the first n status events are the retry loop's.
LoopEventsBefore(n) == Len(SelectSeq(SubSeq(statusLog, 1, n),
                           LAMBDA e : e.Status # ConnectionStatusDisconnected))

PollStarts == SelectSeq(pollLog, LAMBDA f : f.kind = "start")

\* C28: the loop publishes Connecting right before each Connect; after a
\* Connect that succeeds it publishes one Connected and starts the keepalive
\* loop; after one that fails it publishes one Reconnecting with the error,
\* and only then waits.
C28_StatusEventsFrameEachConnect ==
    /\ Len(LoopLog) <= 2 * Len(attemptLog) + 1
    /\ \A i \in 1..Len(attemptLog) :
          /\ LoopEventsBefore(attemptLog[i].published) = 2 * i - 1
          /\ LoopLog[2 * i - 1].Status = ConnectionStatusConnecting
          /\ Len(LoopLog) >= 2 * i =>
                IF attemptLog[i].result = "ok"
                THEN /\ LoopLog[2 * i].Status = ConnectionStatusConnected
                     /\ LoopLog[2 * i].Error = ""
                ELSE /\ LoopLog[2 * i].Status = ConnectionStatusReconnecting
                     /\ LoopLog[2 * i].Error = attemptLog[i].result
          /\ i < Len(attemptLog) => Len(LoopLog) >= 2 * i
    /\ connPc \in {"reset", "connected", "backoff"} =>
          Len(LoopLog) = 2 * Len(attemptLog)
    /\ connPc = "connected" => Len(PollStarts) = 1
    /\ Len(PollStarts) = 1 =>
          /\ Len(LoopLog) = 2 * Len(attemptLog)
          /\ LoopLog[Len(LoopLog)].Status = ConnectionStatusConnected
    /\ Len(waits) = Len(Reconnectings)

\* Two Connect calls failed and the third succeeded; the loop is blocked
\* after Connected with the keepalive loop started.
C28_Witness ==
    /\ Len(attemptLog) = 3
    /\ attemptLog[3].result = "ok"
    /\ attemptLog[1].result # attemptLog[2].result
    /\ connPc = "connected"
    /\ Len(LoopLog) = 6
    /\ Len(PollStarts) = 1
    /\ Len(waits) = 2

\* C29: the client never calls Connect once a Connect has succeeded, so it
\* has at most one link, and it starts pollStatus at most once for it.
C29_OneLinkOnePollLoop ==
    /\ \A i \in 1..(Len(attemptLog) - 1) : attemptLog[i].result # "ok"
    /\ connPc \in {"publish_connecting", "connect", "publish_reconnecting",
                   "backoff"} => link = "down" /\ ~polling
    /\ Len(PollStarts) <= 1
    /\ Len(PollStarts) = 1 =>
          /\ Len(attemptLog) >= 1
          /\ attemptLog[Len(attemptLog)].result = "ok"
    /\ polling <=> Len(PollStarts) = 1

\* A Connect succeeded after a failure, the keepalive loop runs and the link
\* is up.
C29_Witness ==
    /\ Len(attemptLog) = 2
    /\ attemptLog[2].result = "ok"
    /\ link = "up"
    /\ polling
    /\ connPc = "connected"
    /\ closePc = "idle"

-----------------------------------------------------------------------------
(* Process shutdown and start-up. *)

\* C24: after the shutdown signal run returns in the end, also when the
\* device link does not answer its Close.
C24_ShutdownCompletes == (mainPc = "select") ~> (mainPc = "exited")

\* What the settings must satisfy: intervals of a second or more, and a
\* maximum wait that is not below the first wait.
TimingsInvalid(c) ==
    \/ c.XMPPKeepaliveInterval < 1
    \/ c.XMPPReconnectBackoff < 1
    \/ c.XMPPMaxReconnectWait < c.XMPPReconnectBackoff

\* C26: with an interval below a second, or a maximum wait below the first
\* wait, Validate returns an error, Load returns no configuration, and the
\* client is never created or started.
C26_InvalidTimingsNeverStart ==
    /\ \A c \in CandidateConfigs :
          TimingsInvalid(c) => ~Validate(c)
    /\ \A n \in 1..Len(loaded) :
          TimingsInvalid(loaded[n].env) =>
              /\ loaded[n].err
              /\ loaded[n].cfg = <<>>
              /\ mainPc = "failed"
              /\ cfg = ZeroConfig
              /\ connPc = "not_started"
              /\ cmdPc = "not_started"
              /\ attemptLog = <<>>
    /\ connPc # "not_started" => ~TimingsInvalid(cfg)

\* Load was called with a maximum wait below the first wait (both a second
\* or more) and run has failed.
C26_Witness ==
    /\ loaded # <<>>
    /\ loaded[1].env.XMPPKeepaliveInterval >= 1
    /\ loaded[1].env.XMPPReconnectBackoff = 5
    /\ loaded[1].env.XMPPMaxReconnectWait = 1
    /\ loaded[1].err
    /\ mainPc = "failed"


-----------------------------------------------------------------------------
(* Concurrent callers of PublishStateUpdate. *)

\* The calls that have returned.
FinishedCalls ==
    SelectSeq(calls, LAMBDA c :
        \A g \in Goroutines :
            pc[g] = "idle" \/ op[g].ev.Timestamp # c.ev.Timestamp)

\* What calls made one after the other hand to the bus: each is compared
\* with the one delivered last and skipped when it is the same.
RECURSIVE SerialDelivery(_, _)
SerialDelivery(cs, last) ==
    IF cs = <<>> THEN <<>>
    ELSE IF last # <<>> /\ SameReadings(Head(cs).ev, last[1])
         THEN SerialDelivery(Tail(cs), last)
         ELSE <<Head(cs)>> \o SerialDelivery(Tail(cs), <<Head(cs).ev>>)

Orders(n) ==
    { f \in [1..n -> 1..n] : \A i, j \in 1..n : i # j => f[i] # f[j] }

SerialOrderExists ==
    LET fin == FinishedCalls
        n == Len(fin)
    IN  \E f \in Orders(n) :
            SerialDelivery([i \in 1..n |-> fin[f[i]]], <<>>) = OfType(handed, TState)

\* C27: the comparison with lastState, the delivery and the update of
\* lastState are one step for the other callers: one caller at a time is
\* between comparison and delivery and its comparison still holds, the
\* events handed to the bus are those of the calls made in some order one
\* after the other, lastState is the one handed last, and a subscriber
\* receives them in that order, so that the last event received by one that
\* subscribed before the last update is lastState.
C27_PublishStateUpdateIsAtomic ==
    /\ \A g \in Goroutines :
          pc[g] = "psu_publish" => stateMu = g /\ ~SameAsLast(op[g].ev)
    /\ SerialOrderExists
    /\ LET h == OfType(handed, TState)
       IN  lastState = IF h = <<>> THEN <<>> ELSE <<h[Len(h)].ev>>
    /\ \A n \in 1..nSubs :
          subInfo[n].type = TState =>
              /\ \A i \in 1..(Len(received[n]) - 1) :
                    HandedIndex(received[n][i].ev.Timestamp)
                        < HandedIndex(received[n][i + 1].ev.Timestamp)
              /\ (Quiescent /\ Current(n) /\ subInfo[n].handedBefore < Len(handed)) =>
                    /\ received[n] # <<>>
                    /\ received[n][Len(received[n])].ev = lastState[1]

\* Three calls have returned, the second having overtaken the first; one
\* of them was skipped, and a subscriber has received the other two, the
\* last of them being lastState.
C27_Witness ==
    /\ Quiescent
    /\ Len(calls) = 3
    /\ Len(handed) = 2
    /\ handed[1].ev.Timestamp = 2
    /\ Current(1)
    /\ Len(received[1]) = 2
    /\ received[1][2].ev = lastState[1]


-----------------------------------------------------------------------------
(* What changes the reconnect counter and the wait. *)

\* A step of handleCommand, from its entry to its return.
CommandStep == cmdCur # NoCommand /\ (cmdPc' # cmdPc \/ cmdCur' # cmdCur)

\* C31: no step of handling a command changes the reconnect counter or the
\* backoff, whether the Put succeeds or fails; the counter grows, by one,
\* only with a Connect that failed, and drops, to zero, only after a Connect
\* that succeeded; the backoff changes only in the retry loop.
C31_CommandsLeaveCounterAndBackoff ==
    [][ /\ CommandStep => reconnectNum' = reconnectNum /\ backoff' = backoff
        /\ (puts' # puts \/ fetches' # fetches \/ handledLog' # handledLog)
              => reconnectNum' = reconnectNum /\ backoff' = backoff
        /\ reconnectNum' > reconnectNum =>
              /\ reconnectNum' = reconnectNum + 1
              /\ Len(attemptLog') = Len(attemptLog) + 1
              /\ attemptLog'[Len(attemptLog')].result # "ok"
        /\ reconnectNum' < reconnectNum =>
              /\ reconnectNum' = 0
              /\ attemptLog' = attemptLog
              /\ attemptLog[Len(attemptLog)].result = "ok"
        /\ backoff' # backoff =>
              /\ connPc \in {"entry", "backoff"}
              /\ connPc' = "top"
              /\ cmdPc' = cmdPc /\ cmdCur' = cmdCur
      ]_vars

\* After two failed Connect calls a command was handled, its Put failing,
\* and another, its Put succeeding and its status fetched; the counter still
\* reads two.
C31_Witness ==
    /\ Len(attemptLog) = 2
    /\ attemptLog[2].result # "ok"
    /\ reconnectNum = 2
    /\ connPc = "backoff"
    /\ Len(puts) = 2
    /\ ~puts[1].ok
    /\ puts[2].ok
    /\ Len(fetches) = 1
    /\ fetches[1].ok
    /\ cmdCur = NoCommand


-----------------------------------------------------------------------------
(* Shared fields of the client. *)

\* C32: no field of the client is written by one goroutine while another
\* reads it unsynchronised: the retry loop is never about to write
\* reconnectNum while the caller of Close is about to read it.
C32_ReconnectNumIsNotRaced ==
    ~(RetryWritesReconnectNum /\ CloseReadsReconnectNum)


-----------------------------------------------------------------------------
(* lastState follows what is submitted. *)

\* The call of g returns with this step.
ReturnsFromPublishStateUpdate(g) ==
    pc[g] \in {"psu_lock", "psu_publish"} /\ pc'[g] = "idle"

\* C33: when a call of PublishStateUpdate returns, lastState is the same,
\* within the tolerance, as the snapshot the call submitted, and it is the
\* state delivered last; a snapshot is skipped only while it is within the
\* tolerance of the one delivered last, and is delivered as soon as it is not.
C33_LastStateTracksSubmitted ==
    [][ \A g \in Goroutines :
          /\ ReturnsFromPublishStateUpdate(g) =>
                /\ lastState' # <<>>
                /\ SameReadings(op[g].ev, lastState'[1])
                /\ LET h == OfType(handed', TState)
                   IN  h # <<>> /\ h[Len(h)].ev = lastState'[1]
                /\ handed' = handed <=> SameAsLast(op[g].ev)
                /\ handed' # handed =>
                      handed' = Append(handed, Item(TState, op[g].ev, op[g].client))
      ]_vars

\* Three calls made one after the other, each a step of less than the
\* tolerance from the one before: the second was skipped, and the third,
\* being the tolerance away from the first, was delivered and is lastState.
C33_Witness ==
    /\ Quiescent
    /\ Len(calls) = 3
    /\ \A i \in 1..2 :
          /\ calls[i + 1].ev.CurrentTemperature - calls[i].ev.CurrentTemperature = 1
          /\ 1 < Epsilon
    /\ Len(handed) = 2
    /\ handed[1].ev = calls[1].ev
    /\ handed[2].ev = calls[3].ev
    /\ handed[2].ev.CurrentTemperature - handed[1].ev.CurrentTemperature = Epsilon
    /\ lastState = <<calls[3].ev>>


-----------------------------------------------------------------------------
(* The range of the backoff. *)

\* C34: with settings Validate accepts, every wait lies between the
\* configured backoff and the configured maximum, and no wait is shorter
\* than the one before it.
C34_WaitsStayInRange ==
    Validate(cfg) =>
        /\ \A n \in 1..Len(waits) :
              /\ cfg.XMPPReconnectBackoff <= waits[n]
              /\ waits[n] <= cfg.XMPPMaxReconnectWait
        /\ \A n \in 1..(Len(waits) - 1) : waits[n] <= waits[n + 1]


-----------------------------------------------------------------------------
(* The state published after a poll. *)

\* The event is the one published for a push notification.
FromNotification(e) ==
    \E k \in 1..Len(pushLog) : pushLog[k].event = <<e>>

\* C35: a state event published after a successful status fetch carries the
\* temperatures the device returned; so every state event of the client is
\* that of a notification or has the device's values, and none puts default
\* values in the place of a notified state.
C35_PollPublishesDeviceValues ==
    \A i \in 1..Len(handed) :
        (handed[i].type = TState /\ ~FromNotification(handed[i].ev)) =>
            /\ handed[i].ev.CurrentTemperature = DeviceStatus.InHouseTemp
            /\ handed[i].ev.TargetTemperature = DeviceStatus.TempSetpoint


-----------------------------------------------------------------------------
(* web.Server: the SSE handlers, updateState and Close.  A section under   *)
(* the write lock of Server.mu is one step, taken when nobody holds the    *)
(* read lock: nothing in such a section waits.                             *)

besidesWeb == <<busVars, eqVars, connVars, cmdVars, pollPc, pollLog, pushLog,
                mainPc, loaded, shutdownLog>>

HTTPMethods == {"GET", "POST"}

WebPanic(who, what) == [who |-> who, what |-> what]

\* webServer.Start()
ServerStartCall ==
    /\ updPc = "not_started"
    /\ webClosePc = "idle"
    /\ ServerStart
    /\ UNCHANGED <<webMu, currentState, sseClients, clientChan, ssePc, webPanics, updEvent, nUpdates, webClosePc, webCtx>>
    /\ UNCHANGED besidesWeb

\* handleSSE is entered: the method check, the headers, and
\* clientChan := make(chan events.StateUpdateEvent, 10).
handleSSEEntry(r, method) ==
    /\ updPc # "not_started"
    /\ webClosePc # "done"
    /\ ssePc[r] = "idle"
    /\ IF method # "GET"
       THEN /\ ssePc' = [ssePc EXCEPT ![r] = "done"]
            /\ UNCHANGED clientChan
       ELSE /\ ssePc' = [ssePc EXCEPT ![r] = "register"]
            /\ clientChan' = [clientChan EXCEPT ![r] = NewChan]
    /\ UNCHANGED <<webMu, currentState, sseClients, webPanics, updPc,
                   updEvent, nUpdates, webClosePc, webCtx, webStatus>>
    /\ UNCHANGED besidesWeb

\* s.mu.Lock(); s.sseClients[clientChan] = struct{}{}; s.mu.Unlock()
handleSSERegister(r) ==
    /\ ssePc[r] = "register"
    /\ webMu = {}
    /\ sseClients' = sseClients \cup {r}
    /\ ssePc' = [ssePc EXCEPT ![r] = "rlock"]
    /\ UNCHANGED <<webMu, currentState, clientChan, webPanics, updPc,
                   updEvent, nUpdates, webClosePc, webCtx, webStatus>>
    /\ UNCHANGED besidesWeb

\* s.mu.RLock()
handleSSERLock(r) ==
    /\ ssePc[r] = "rlock"
    /\ webMu' = webMu \cup {r}
    /\ ssePc' = [ssePc EXCEPT ![r] = "send"]
    /\ UNCHANGED <<currentState, sseClients, clientChan, webPanics,
                   updPc, updEvent, nUpdates, webClosePc, webCtx, webStatus>>
    /\ UNCHANGED besidesWeb

\* if s.currentState != nil { clientChan <- *s.currentState }; s.mu.RUnlock()
\* The send waits while the buffer is full; on a closed channel it panics,
\* and the read lock, whose release is not deferred, stays held.
handleSSESendCurrent(r) ==
    /\ ssePc[r] = "send"
    /\ IF currentState = <<>>
       THEN /\ webMu' = webMu \ {r}
            /\ ssePc' = [ssePc EXCEPT ![r] = "flusher"]
            /\ UNCHANGED <<clientChan, webPanics>>
       ELSE IF clientChan[r].closed
       THEN /\ webPanics' = Append(webPanics,
                                   WebPanic(r, "send on closed channel"))
            /\ ssePc' = [ssePc EXCEPT ![r] = "panicked"]
            /\ UNCHANGED <<webMu, clientChan>>
       ELSE /\ Len(clientChan[r].buf) < SSEBufferSize
            /\ clientChan' = [clientChan EXCEPT
                                ![r].buf = Append(@, currentState[1])]
            /\ webMu' = webMu \ {r}
            /\ ssePc' = [ssePc EXCEPT ![r] = "flusher"]
            /\ UNCHANGED webPanics
    /\ UNCHANGED <<currentState, sseClients, updPc, updEvent,
                   nUpdates, webClosePc, webCtx, webStatus>>
    /\ UNCHANGED besidesWeb

\* The cleanup is deferred; flusher, ok := w.(http.Flusher), and the return
\* when the writer cannot flush.
handleSSEFlusher(r, ok) ==
    /\ ssePc[r] = "flusher"
    /\ ssePc' = [ssePc EXCEPT ![r] = IF ok THEN "stream" ELSE "return_no_flusher"]
    /\ UNCHANGED <<webMu, currentState, sseClients, clientChan, webPanics, updPc, updEvent, nUpdates, webClosePc, webCtx,
                   webStatus>>
    /\ UNCHANGED besidesWeb

\* case event := <-clientChan: the event leaves the buffer and is written
\* to the response.  (A closed channel that is drained yields zero events,
\* which change nothing the server holds.)
handleSSEReceive(r) ==
    /\ ssePc[r] = "stream"
    /\ clientChan[r].buf # <<>>
    /\ clientChan' = [clientChan EXCEPT ![r].buf = Tail(@)]
    /\ UNCHANGED <<webMu, currentState, sseClients, ssePc, webPanics, updPc,
                   updEvent, nUpdates, webClosePc, webCtx, webStatus>>
    /\ UNCHANGED besidesWeb

\* case <-r.Context().Done(): the client went away.
handleSSERequestDone(r) ==
    /\ ssePc[r] = "stream"
    /\ ssePc' = [ssePc EXCEPT ![r] = "return_request_done"]
    /\ UNCHANGED <<webMu, currentState, sseClients, clientChan, webPanics, updPc, updEvent, nUpdates, webClosePc, webCtx,
                   webStatus>>
    /\ UNCHANGED besidesWeb

\* case <-s.ctx.Done()
handleSSEServerDone(r) ==
    /\ ssePc[r] = "stream"
    /\ webCtx
    /\ ssePc' = [ssePc EXCEPT ![r] = "return_server_done"]
    /\ UNCHANGED <<webMu, currentState, sseClients, clientChan, webPanics, updPc, updEvent, nUpdates, webClosePc, webCtx,
                   webStatus>>
    /\ UNCHANGED besidesWeb

\* The return statements of handleSSE the deferred cleanup runs after.
Returns == {"return_no_flusher", "return_request_done", "return_server_done"}

\* deferred: s.mu.Lock(); delete(s.sseClients, clientChan); s.mu.Unlock()
handleSSEUnregister(r) ==
    /\ ssePc[r] \in Returns
    /\ webMu = {}
    /\ sseClients' = sseClients \ {r}
    /\ ssePc' = [ssePc EXCEPT ![r] = "close"]
    /\ UNCHANGED <<webMu, currentState, clientChan, webPanics, updPc,
                   updEvent, nUpdates, webClosePc, webCtx, webStatus>>
    /\ UNCHANGED besidesWeb

\* deferred: close(clientChan), which panics on a closed channel.
handleSSECloseChan(r) ==
    /\ ssePc[r] = "close"
    /\ IF clientChan[r].closed
       THEN /\ webPanics' = Append(webPanics,
                                   WebPanic(r, "close of closed channel"))
            /\ ssePc' = [ssePc EXCEPT ![r] = "panicked"]
            /\ UNCHANGED clientChan
       ELSE /\ clientChan' = [clientChan EXCEPT ![r].closed = TRUE]
            /\ ssePc' = [ssePc EXCEPT ![r] = "done"]
            /\ UNCHANGED webPanics
    /\ UNCHANGED <<webMu, currentState, sseClients, updPc, updEvent,
                   nUpdates, webClosePc, webCtx, webStatus>>
    /\ UNCHANGED besidesWeb

handleSSE ==
    \/ \E r \in SSERequests, method \in HTTPMethods : handleSSEEntry(r, method)
    \/ \E r \in SSERequests : handleSSERegister(r)
    \/ \E r \in SSERequests : handleSSERLock(r)
    \/ \E r \in SSERequests : handleSSESendCurrent(r)
    \/ \E r \in SSERequests, ok \in BOOLEAN : handleSSEFlusher(r, ok)
    \/ \E r \in SSERequests : handleSSEReceive(r)
    \/ \E r \in SSERequests : handleSSERequestDone(r)
    \/ \E r \in SSERequests : handleSSEServerDone(r)
    \/ \E r \in SSERequests : handleSSEUnregister(r)
    \/ \E r \in SSERequests : handleSSECloseChan(r)

\* case event := <-sub.Events(): s.updateState(event) is called.
handleStateUpdatesEvent ==
    /\ updPc = "idle"
    /\ nUpdates < MaxUpdates
    /\ nUpdates' = nUpdates + 1
    /\ updEvent' = nUpdates + 1
    /\ updPc' = "lock"
    /\ UNCHANGED <<webMu, currentState, sseClients, clientChan, ssePc, webPanics, webClosePc, webCtx, webStatus>>
    /\ UNCHANGED besidesWeb

\* case <-s.ctx.Done(): return
handleStateUpdatesDone ==
    /\ updPc = "idle"
    /\ webCtx
    /\ updPc' = "stopped"
    /\ UNCHANGED <<webMu, currentState, sseClients, clientChan, ssePc, webPanics, updEvent, nUpdates, webClosePc, webCtx, webStatus>>
    /\ UNCHANGED besidesWeb

\* The loop of updateState, had it given up at a client whose buffer is full.
BroadcastUntilFull(chans, registered, event) ==
    IF \E r \in registered : Len(chans[r].buf) >= SSEBufferSize
    THEN chans
    ELSE [r \in SSERequests |->
            IF r \in registered
            THEN [chans[r] EXCEPT !.buf = Append(@, event)]
            ELSE chans[r]]

\* for client := range s.sseClients { select { case client <- event: default: } }
Broadcast(chans, registered, event) ==
    [r \in SSERequests |->
        IF r \in registered /\ Len(chans[r].buf) < SSEBufferSize
        THEN [chans[r] EXCEPT !.buf = Append(@, event)]
        ELSE chans[r]]

\* updateState: s.mu.Lock(), the event is stored and broadcast, s.mu.Unlock().
\* A send in a select panics too when the channel is closed.
updateState ==
    /\ updPc = "lock"
    /\ webMu = {}
    /\ currentState' = <<UpdateEvent(updEvent)>>
    /\ IF \E r \in sseClients : clientChan[r].closed
       THEN /\ webPanics' = Append(webPanics,
                                   WebPanic("updateState", "send on closed channel"))
            /\ updPc' = "panicked"
            /\ UNCHANGED clientChan
       ELSE /\ clientChan' = Broadcast(clientChan, sseClients, UpdateEvent(updEvent))
            /\ updPc' = "idle"
            /\ UNCHANGED webPanics
    /\ updEvent' = 0
    /\ UNCHANGED <<webMu, sseClients, ssePc, nUpdates, webClosePc,
                   webCtx, webStatus>>
    /\ UNCHANGED besidesWeb

\* Server.Close is called: s.publishConnectionStatus(Disconnected, "")
ServerClosePublish ==
    /\ webClosePc = "idle"
    /\ webStatus' = Append(webStatus,
                           ConnectionStatusEvent(0, ClientWeb,
                                                 ConnectionStatusDisconnected, "", 0))
    /\ webClosePc' = "lock"
    /\ UNCHANGED <<webMu, currentState, sseClients, clientChan, ssePc, webPanics, updPc, updEvent, nUpdates, webCtx>>
    /\ UNCHANGED besidesWeb

\* s.mu.Lock(); for client := range s.sseClients { close(client) };
\* s.sseClients = make(...); s.mu.Unlock()
ServerCloseClients ==
    /\ webClosePc = "lock"
    /\ webMu = {}
    /\ IF \E r \in sseClients : clientChan[r].closed
       THEN /\ webPanics' = Append(webPanics,
                                   WebPanic("Close", "close of closed channel"))
            /\ webClosePc' = "panicked"
            /\ UNCHANGED <<clientChan, sseClients>>
       ELSE /\ clientChan' = [r \in SSERequests |->
                                IF r \in sseClients
                                THEN [clientChan[r] EXCEPT !.closed = TRUE]
                                ELSE clientChan[r]]
            /\ sseClients' = {}
            /\ webClosePc' = "cancel"
            /\ UNCHANGED webPanics
    /\ UNCHANGED <<webMu, currentState, ssePc, updPc, updEvent,
                   nUpdates, webCtx, webStatus>>
    /\ UNCHANGED besidesWeb

\* s.cancel()
ServerCloseCancel ==
    /\ webClosePc = "cancel"
    /\ webCtx' = TRUE
    /\ webClosePc' = "shutdown"
    /\ UNCHANGED <<webMu, currentState, sseClients, clientChan, ssePc, webPanics, updPc, updEvent, nUpdates, webStatus>>
    /\ UNCHANGED besidesWeb

\* s.server.Shutdown(shutdownCtx) returns, the handlers having returned or
\* the five seconds being over; return nil.
ServerCloseShutdown ==
    /\ webClosePc = "shutdown"
    /\ webClosePc' = "done"
    /\ UNCHANGED <<webMu, currentState, sseClients, clientChan, ssePc, webPanics, updPc, updEvent, nUpdates, webCtx, webStatus>>
    /\ UNCHANGED besidesWeb

ServerClose ==
    \/ ServerClosePublish
    \/ ServerCloseClients
    \/ ServerCloseCancel
    \/ ServerCloseShutdown

handleStateUpdates ==
    \/ handleStateUpdatesEvent
    \/ updateState
    \/ handleStateUpdatesDone

WebNext ==
    \/ ServerStartCall
    \/ handleSSE
    \/ handleStateUpdates
    \/ ServerClose

WebSpec == Init /\ [][WebNext]_vars

\* What a goroutine of the web server does by itself, once it can.
GoroutineSteps(r) ==
    \/ handleSSERegister(r)
    \/ handleSSERLock(r)
    \/ handleSSESendCurrent(r)
    \/ handleSSEFlusher(r, TRUE)
    \/ handleSSEReceive(r)
    \/ handleSSEServerDone(r)
    \/ handleSSEUnregister(r)
    \/ handleSSECloseChan(r)

\* Every goroutine that can take a step is scheduled.
WebLiveSpec ==
    /\ WebSpec
    /\ \A r \in SSERequests : WF_vars(GoroutineSteps(r))
    /\ WF_vars(updateState)
    /\ WF_vars(ServerClose)

-----------------------------------------------------------------------------
\* The order run's deferred closes are to run in.
CloseOrder == <<ClientWeb, ClientHomeKit, ClientNefit, "bus">>

\* The components closed so far, in order.
ClosedComponents ==
    LET closed == SelectSeq(shutdownLog, LAMBDA x : x.what = "closed")
    IN  [i \in 1..Len(closed) |-> closed[i].component]

\* C36: on shutdown the components are closed in the order web, homekit,
\* nefit, bus: each component publishes its Disconnected before it is
\* closed and while every client of the bus is open, and the bus is closed
\* only when the three others are.
C36_ClosedInOrderBusLast ==
    /\ Len(ClosedComponents) <= Len(CloseOrder)
    /\ ClosedComponents = SubSeq(CloseOrder, 1, Len(ClosedComponents))
    /\ \A i \in 1..Len(shutdownLog) :
          /\ shutdownLog[i].what = "disconnected" => shutdownLog[i].busOpen
          /\ (shutdownLog[i].what = "closed"
               /\ shutdownLog[i].component \in {ClientWeb, ClientHomeKit})
              => /\ i > 1
                 /\ shutdownLog[i - 1] =
                       [shutdownLog[i] EXCEPT !.what = "disconnected"]
    /\ (\E i \in 1..Len(shutdownLog) : shutdownLog[i].component = ClientNefit)
          => Len(Disconnecteds) = 1
    /\ Len(Disconnecteds) > 0 /\ Len(ClosedComponents) < Len(CloseOrder)
          => clientClosed = {} /\ clients = ClientNames
    /\ (clientClosed # {} \/ closeReturned) => ClosedComponents = CloseOrder

C36_Witness ==
    /\ mainPc = "exited"
    /\ ClosedComponents = CloseOrder
    /\ Len(Disconnecteds) = 1
    /\ clientClosed = ClientNames
    /\ webStatus[Len(webStatus)].Status = ConnectionStatusDisconnected

-----------------------------------------------------------------------------
\* The panics of closing a closed channel and of sending on one.
ChannelPanics ==
    SelectSeq(webPanics,
              LAMBDA x : x.what \in {"close of closed channel",
                                     "send on closed channel"})

\* C37: however handleSSE, updateState and Close interleave, no channel of
\* an SSE client is closed a second time and no event is sent on a closed
\* one, and once Close has returned no SSE client is registered.
C37_ChannelsClosedOnceAndNoneLeft ==
    /\ ChannelPanics = <<>>
    /\ webClosePc = "done" => sseClients = {}

\* C38: Server.mu is never held forever: a handler that took the read lock
\* to send the current state releases it, whatever updateState put into
\* its buffer since it registered, and updateState and Close, once they ask
\* for the lock, get it.
C38_LockIsNeverHeldForever ==
    /\ \A r \in SSERequests : (r \in webMu) ~> (r \notin webMu)
    /\ (updPc = "lock") ~> (updPc # "lock")
    /\ (webClosePc = "lock") ~> (webClosePc # "lock")

\* A step in which updateState ran through.
UpdateStateStep == updPc = "lock" /\ updPc' # "lock"

\* The registered clients whose buffer has no room.
FullClients == { r \in sseClients : Len(clientChan[r].buf) = SSEBufferSize }

====
